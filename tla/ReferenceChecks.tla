--------------------------- MODULE ReferenceChecks ---------------------------
(***************************************************************************)
(* Provider.checkReferencedObjects: the lookups made for one valid object, *)
(* one after another, through the cache that all requests share, while     *)
(* others fill that cache and change the platform.                         *)
(*                                                                         *)
(* The lookups of an object are stages of chains of checks.  A check that  *)
(* finds nothing is reported and ends its chain (a project that is missing *)
(* hides what is looked up in it); a failed request is only logged.  A     *)
(* stage is entered only if nothing is reported yet.                       *)
(*                                                                         *)
(* A behaviour begins longer before its check than an answer lives, one    *)
(* retention and one request (StalenessBound of ObjectsCache): what the    *)
(* cache has at that time is never used by the check, and `past` holds     *)
(* every platform that an answer given to the check can be of.             *)
(***************************************************************************)
EXTENDS Manifests, SequencesExt

CONSTANTS
  Objects,      \* the objects to check
  Things,       \* what the platform may have
  MaxChanges,   \* bound: how often the platform changes before and during a check
  MaxStores     \* bound: how often others store an answer that the check may use

ASSUME ChecksAssumption ==
  /\ MaxChanges \in Nat
  /\ MaxStores \in Nat
  /\ \A o \in Objects : IsFiniteSet(DOMAIN o.fields)

VARIABLES
  object,       \* the object under check
  platform,     \* what exists
  todo,         \* the stages left, with the checks left in each chain
  reported,     \* the checks that gave a diagnostic
  failed,       \* the checks whose request failed
  cache,        \* dataCache.cache: the answers to some requests
  past,         \* history: every platform since one StalenessBound before the check
  changes,      \* number of changes, for the bound
  stores        \* number of answers stored by others, for the bound

vars == <<object, platform, todo, reported, failed, cache, past, changes, stores>>

-----------------------------------------------------------------------------
(* The checks of each kind of object.                                       *)

\* checkObjectExistence, checkUserExistence and checkRoleExistence: is there a thing of
\* this kind with the name in the field?  "slo" is set for an objective only.
Check(o, path, kind, project) ==
  [path |-> path, kind |-> kind, name |-> Field(o, path), slo |-> Empty, project |-> project]

\* checkObjectiveExistence
ObjectiveCheck(o, path, slo, project) ==
  [path |-> path, kind |-> "Objective", name |-> Field(o, path), slo |-> slo, project |-> project]

\* A check is made only if it has a name.
Asked(c) == c.name # Empty /\ (c.kind = "Objective" => c.slo # Empty)

\* A project in one field, then a name in it; default is the project if the field is empty.
Located(o, projectField, nameField, index, kind, default) ==
  LET project == Field(o, <<projectField, index>>) IN
  <<Check(o, <<projectField, index>>, "Project", Empty),
    Check(o, <<nameField, index>>, kind, IF project = Empty THEN default ELSE project)>>

EachLocated(o, projectField, nameField, kind, default) ==
  [i \in 1..Count(o, {projectField, nameField}, <<>>) |->
    Located(o, projectField, nameField, <<i>>, kind, default)]

Each(o, field, kind, project) ==
  [i \in 1..Count(o, {field}, <<>>) |-> <<Check(o, <<field, <<i>>>>, kind, project)>>]

ComponentProject == "spec.objectives[*].composite.components.objectives[*].project"
ComponentSLO == "spec.objectives[*].composite.components.objectives[*].slo"
ComponentObjective == "spec.objectives[*].composite.components.objectives[*].objective"
ComponentFields == {ComponentProject, ComponentSLO, ComponentObjective}

\* Project, SLO and objective of each component of each composite objective.
Composite(o) ==
  FlattenSeq([i \in 1..CountOuter(o, ComponentFields) |->
    [j \in 1..Count(o, ComponentFields, <<i>>) |->
      LET project == Field(o, <<ComponentProject, <<i, j>>>>)
          slo == Field(o, <<ComponentSLO, <<i, j>>>>)
      IN Append(Located(o, ComponentProject, ComponentSLO, <<i, j>>, "SLO", Empty),
                ObjectiveCheck(o, <<ComponentObjective, <<i, j>>>>, slo, project))]])

SourceField == "spec.indicator.metricSource.name"
SourceKindPath == <<"spec.indicator.metricSource.kind", <<>>>>

SourceKind(o) == IF Field(o, SourceKindPath) = Empty THEN "Agent" ELSE Field(o, SourceKindPath)

SLOChains(o) ==
  <<<<Check(o, <<"spec.service", <<>>>>, "Service", OwnProject(o))>>>>
  \o Each(o, "spec.alertPolicies[*]", "AlertPolicy", OwnProject(o))
  \o <<Located(o, "spec.indicator.metricSource.project", SourceField, <<>>,
               SourceKind(o), OwnProject(o))>>
  \o EachLocated(o, "spec.anomalyConfig.noData.alertMethods[*].project",
                 "spec.anomalyConfig.noData.alertMethods[*].name", "AlertMethod", OwnProject(o))
  \o Composite(o)

AlertPolicyChains(o) ==
  EachLocated(o, "spec.alertMethods[*].metadata.project", "spec.alertMethods[*].metadata.name",
              "AlertMethod", OwnProject(o))

AlertSilenceChains(o) ==
  <<Located(o, "spec.alertPolicy.project", "spec.alertPolicy.name", <<>>, "AlertPolicy",
            OwnProject(o)),
    <<Check(o, <<"spec.slo", <<>>>>, "SLO", OwnProject(o))>>>>

AnnotationChains(o) ==
  <<<<Check(o, <<"spec.slo", <<>>>>, "SLO", OwnProject(o)),
      ObjectiveCheck(o, <<"spec.objectiveName", <<>>>>, Field(o, <<"spec.slo", <<>>>>),
                     OwnProject(o))>>>>

BudgetAdjustmentChains(o) ==
  EachLocated(o, "spec.filters.slos[*].project", "spec.filters.slos[*].name", "SLO", Empty)

ReportChains(o) ==
  EachLocated(o, "spec.filters.services[*].project", "spec.filters.services[*].name",
              "Service", Empty)
  \o EachLocated(o, "spec.filters.slos[*].project", "spec.filters.slos[*].name", "SLO", Empty)

RoleBindingChains(o) ==
  LET project == Field(o, <<"spec.projectRef", <<>>>>) IN
  <<<<Check(o, <<"spec.roleRef", <<>>>>,
            IF project # Empty THEN "ProjectRole" ELSE "OrganizationRole", Empty)>>,
    <<Check(o, <<"spec.projectRef", <<>>>>, "Project", Empty)>>,
    <<Check(o, <<"spec.groupRef", <<>>>>, "UserGroup", project)>>,
    <<Check(o, <<"spec.user", <<>>>>, "User", Empty)>>>>

UserGroupChains(o) == Each(o, "spec.members[*].id", "User", Empty)

\* The switch on the type of the object; other kinds have only their project checked.
Chains(o) ==
  CASE o.kind = "SLO" -> SLOChains(o)
    [] o.kind = "AlertPolicy" -> AlertPolicyChains(o)
    [] o.kind = "AlertSilence" -> AlertSilenceChains(o)
    [] o.kind = "Annotation" -> AnnotationChains(o)
    [] o.kind = "BudgetAdjustment" -> BudgetAdjustmentChains(o)
    [] o.kind = "Report" -> ReportChains(o)
    [] o.kind = "RoleBinding" -> RoleBindingChains(o)
    [] o.kind = "UserGroup" -> UserGroupChains(o)
    [] OTHER -> <<>>

\* The object's own project first; a report's projects before its services and SLOs.
Stages(o) ==
  (IF o.kind \in ProjectScopedKinds THEN <<<<<<Check(o, ProjectPath, "Project", Empty)>>>>>> ELSE <<>>)
  \o (IF o.kind = "Report" THEN <<Each(o, "spec.filters.projects[*]", "Project", Empty)>> ELSE <<>>)
  \o <<Chains(o)>>

\* Every check in the chains of some stages, and those that are made of an object.
ChecksIn(stages) ==
  UNION {UNION {ToSet(stages[s][k]) : k \in DOMAIN stages[s]} : s \in DOMAIN stages}

Checks(o) == {c \in ChecksIn(Stages(o)) : Asked(c)}

\* The request of a check: an objective is looked for in the answer to its SLO's.
RequestOf(c) ==
  IF c.kind = "Objective" THEN Request("SLO", c.slo, c.project)
  ELSE Request(c.kind, c.name, c.project)

Requests(o) == {RequestOf(c) : c \in Checks(o)}

-----------------------------------------------------------------------------
(* What a lookup gives, of a platform or of an answer, which is the part of  *)
(* one that was returned.  An SLO that is not found says nothing about its   *)
(* objectives; one of several of a name stands for all.                      *)

Holds(w, c) ==
  IF c.kind = "Objective"
  THEN LET slos == Found(w, "SLO", c.slo, c.project)
       IN slos = {} \/ \E t \in slos : c.name \in t.objectives
  ELSE Found(w, c.kind, c.name, c.project) # {}

Lacks(w, c) ==
  IF c.kind = "Objective"
  THEN \E t \in Found(w, "SLO", c.slo, c.project) : c.name \notin t.objectives
  ELSE Found(w, c.kind, c.name, c.project) = {}

\* The things that a field of the object names: no other makes a difference to its checks.
Named(o) == {t \in Things : \E path \in DOMAIN o.fields : o.fields[path] = t.name}

\* Deleting a project deletes what is in it.
Without(w, t) == w \ {u \in w : u = t \/ (t.kind = "Project" /\ u.project = t.name)}

\* Applying an object replaces the one of its name.
With(w, t) ==
  {u \in w : ~(u.kind = t.kind /\ u.name = t.name /\ u.project = t.project)} \union {t}

-----------------------------------------------------------------------------

Init ==
  /\ object \in Objects
  /\ platform \in {w \in SUBSET Named(object) : Possible(w)}
  /\ todo = Stages(object)
  /\ reported = {}
  /\ failed = {}
  /\ cache = <<>>
  /\ past = {platform}
  /\ changes = 0
  /\ stores = 0

Done == todo = <<>>
Asking == ~Done /\ todo[1] # <<>>

Current == todo[1][1][1]

\* On to the next check of the chain, or to the next chain.
Continue ==
  LET chain == Tail(todo[1][1])
      others == Tail(todo[1])
  IN [todo EXCEPT ![1] = IF chain = <<>> THEN others ELSE <<chain>> \o others]

\* Mutant: the rest of the stage is left, not just the rest of the chain.
NextChainMutant == [todo EXCEPT ![1] = <<>>]

\* continue, or return: the rest of the chain is left.
NextChain == [todo EXCEPT ![1] = Tail(@)]

\* if objectName == "" { return nil }: no request is made.
Skip ==
  /\ Asking
  /\ ~Asked(Current)
  /\ todo' = Continue
  /\ UNCHANGED <<object, platform, reported, failed, cache, past, changes, stores>>

\* dataCache.Put
Put(request, a) ==
  [r \in DOMAIN cache \union {request} |-> IF r = request THEN a ELSE cache[r]]

\* dataCache.Get: the answer that is there, whether its object was found or not.
Cached == {cache[r] : r \in DOMAIN cache \intersect {RequestOf(Current)}}

Obtainable == Cached \union Answers(platform, RequestOf(Current))

\* The current lookup gets an answer: that of the cache, or, if there is none or it has
\* expired, that of the API, which is stored.
Obtain(a) ==
  \/ a \in Cached /\ UNCHANGED cache
  \/ /\ a \in Answers(platform, RequestOf(Current))
     /\ cache' = Put(RequestOf(Current), a)

\* Mutant: the diagnostic names the object's own project instead of the reference's.
MissMutant ==
  /\ Asking /\ Asked(Current)
  /\ \E a \in Obtainable : Obtain(a) /\ Lacks(a, Current)
  /\ reported' = reported \union {[Current EXCEPT !.project = OwnProject(object)]}
  /\ todo' = NextChain
  /\ UNCHANGED <<object, platform, failed, past, changes, stores>>

\* The lookup returns nothing: a diagnostic.
Miss ==
  /\ Asking /\ Asked(Current)
  /\ \E a \in Obtainable : Obtain(a) /\ Lacks(a, Current)
  /\ reported' = reported \union {Current}
  /\ todo' = NextChain
  /\ UNCHANGED <<object, platform, failed, past, changes, stores>>

\* A lookup that finds: no diagnostic, and the chain goes on.
Find ==
  /\ Asking /\ Asked(Current)
  /\ \E a \in Obtainable : Obtain(a) /\ Holds(a, Current)
  /\ todo' = Continue
  /\ UNCHANGED <<object, platform, reported, failed, past, changes, stores>>

\* Mutant: a failed request is taken for an absence.
FailMutant ==
  /\ Asking /\ Asked(Current)
  /\ failed' = failed \union {Current}
  /\ reported' = reported \union {Current}
  /\ todo' = NextChain
  /\ UNCHANGED <<object, platform, cache, past, changes, stores>>

\* The request fails: logged, and the chain goes on as if it had been found.  An error is not
\* stored; an answer that the cache had has expired, or there had been no request.
Fail ==
  /\ Asking /\ Asked(Current)
  /\ failed' = failed \union {Current}
  /\ cache' = Restrict(cache, DOMAIN cache \ {RequestOf(Current)})
  /\ todo' = Continue
  /\ UNCHANGED <<object, platform, reported, past, changes, stores>>

\* Mutant: what was reported does not matter.
NextStageMutant ==
  /\ ~Done
  /\ todo[1] = <<>>
  /\ todo' = Tail(todo)
  /\ UNCHANGED <<object, platform, reported, failed, cache, past, changes, stores>>

\* if len(diagnostics) > 0 { return diagnostics }
NextStage ==
  /\ ~Done
  /\ todo[1] = <<>>
  /\ todo' = IF reported = {} THEN Tail(todo) ELSE <<>>
  /\ UNCHANGED <<object, platform, reported, failed, cache, past, changes, stores>>

\* Someone else applies or deletes objects.
Change ==
  /\ ~Done
  /\ changes < MaxChanges
  /\ \E t \in Named(object) :
       platform' = IF t \in platform THEN Without(platform, t) ELSE With(platform, t)
  /\ Possible(platform')
  /\ past' = past \union {platform'}
  /\ changes' = changes + 1
  /\ UNCHANGED <<object, todo, reported, failed, cache, stores>>

\* Someone else's request (completion, hover, the checks of another object) stores its answer,
\* which may be older than the answer it replaces.
OthersStore ==
  /\ ~Done
  /\ stores < MaxStores
  /\ \E c \in ChecksIn(todo), w \in past :
       Asked(c) /\ \E a \in Answers(w, RequestOf(c)) : cache' = Put(RequestOf(c), a)
  /\ stores' = stores + 1
  /\ UNCHANGED <<object, platform, todo, reported, failed, past, changes>>

Next == Skip \/ Miss \/ Find \/ Fail \/ NextStage \/ Change \/ OthersStore

Spec == Init /\ [][Next]_vars

-----------------------------------------------------------------------------
(* Properties.                                                              *)

\* The type invariant.
TypeOK ==
  /\ object \in Objects
  /\ platform \subseteq Things /\ Possible(platform)
  /\ todo \in Seq(Seq(Seq(ChecksIn(Stages(object)))))
  /\ reported \union failed \subseteq Checks(object)
  /\ \A r \in DOMAIN cache : r \in Requests(object) /\ cache[r] \subseteq Things
  /\ platform \in past /\ past \subseteq SUBSET Things
  /\ changes \in 0..MaxChanges /\ stores \in 0..MaxStores

\* Every diagnostic was true: what it says is missing was missing at some moment of the check
\* or of the StalenessBound before it, since when its answer may be in the cache.  What was
\* there all that time is never reported, whatever fails, changes or is stored by others.
ReportsAreTrue == \A c \in reported : \E w \in past : Lacks(w, c)

\* Nothing is reported as missing in a project that is missing itself ("If the project
\* does not exist, we shouldn't check the other fields"): the project existed at some moment
\* of the check or of the StalenessBound before it (it may be found in the cache after it was
\* deleted), or its own lookup failed.
ProjectsComeFirst ==
  \A c \in reported :
    c.project # Empty /\ c.kind \in ProjectScopedKinds \union {"Objective"} =>
      \/ \E w \in past : Found(w, "Project", c.project, Empty) # {}
      \/ \E d \in failed : d.kind = "Project" /\ d.name = c.project

\* Does the report of d explain that c was not looked up?
Hides(d, c) ==
  \/ d.path = ProjectPath
  \/ d.path[1] = "spec.filters.projects[*]"
  \/ d.kind = "Project" /\ d.name = c.project
  \/ d.kind = "SLO" /\ d.name = c.slo /\ d.project = c.project
=============================================================================
