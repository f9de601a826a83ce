------------------------------ MODULE Manifests ------------------------------
(***************************************************************************)
(* The data that checks, completion and hover share: an object of a file,  *)
(* read by the paths of its fields, and the platform it refers to.         *)
(*                                                                         *)
(* A path is <<field, indexes>>: $.spec.filters.slos[2].name is            *)
(* <<"spec.filters.slos[*].name", <<2>>>> (indexes from 1).                *)
(***************************************************************************)
EXTENDS Integers, Sequences, FiniteSets

\* An object: its kind and, for every field with a line of its own, the value ("" if it
\* has none).  A thing: what the platform has, an object with the names of its
\* objectives, a user or a role.

\* The empty string of Go: a name, a kind or a project that is not given.
Empty == ""

\* manifest.ProjectScopedObject; also the table objectref keeps of it.
ProjectScopedKinds ==
  {"SLO", "Service", "Agent", "AlertPolicy", "AlertSilence", "AlertMethod", "Direct",
   "DataExport", "Annotation"}

ProjectPath == <<"metadata.project", <<>>>>

\* FindLineByPath: has the field a line?
HasLine(o, path) == path \in DOMAIN o.fields

\* The field of the decoded object and, the same, the value of the line of that path.
Field(o, path) == IF HasLine(o, path) THEN o.fields[path] ELSE Empty

OwnProject(o) == IF o.kind \in ProjectScopedKinds THEN Field(o, ProjectPath) ELSE Empty

\* Number of elements of the list under prefix, an index sequence, whose elements have
\* these fields.
Count(o, fields, prefix) ==
  Cardinality({path[2] : path \in {q \in DOMAIN o.fields :
    /\ q[1] \in fields
    /\ Len(q[2]) > Len(prefix)
    /\ SubSeq(q[2], 1, Len(prefix)) = prefix}})

\* Number of objectives with a composite part, each a list of components.
CountOuter(o, fields) ==
  Cardinality({path[2][1] : path \in {q \in DOMAIN o.fields : q[1] \in fields}})

-----------------------------------------------------------------------------

\* What a platform has of a kind, a name and a project: without a project the request asks
\* for all projects, and what is not in a project is found in any.
Found(platform, kind, name, project) ==
  {t \in platform :
    /\ t.kind = kind
    /\ t.name = name
    /\ kind \in ProjectScopedKinds /\ project # Empty => t.project = project}

\* Both roles are asked for at once: GetRoles has no arguments.
RoleKinds == {"ProjectRole", "OrganizationRole"}
RolesRequest == [kind |-> "Roles", name |-> Empty, project |-> Empty]

\* A call of GetObject, GetUser or GetRoles; its arguments are also the key of its answer in
\* the cache.
Request(kind, name, project) ==
  IF kind \in RoleKinds THEN RolesRequest ELSE [kind |-> kind, name |-> name, project |-> project]

\* What the API can answer: all roles, objects[0] of those found, or nil.
Answers(platform, request) ==
  LET found == Found(platform, request.kind, request.name, request.project) IN
  IF request = RolesRequest THEN {{t \in platform : t.kind \in RoleKinds}}
  ELSE IF found = {} THEN {{}}
  ELSE {{t} : t \in found}

\* The names of all things of a kind in a project, on the platform that the answer is of: the
\* present one, or an earlier one if the answer is in the cache.
AllNames(platform, kind, project) ==
  {t.name : t \in {u \in platform :
    u.kind = kind /\ (kind \in ProjectScopedKinds /\ project # Empty => u.project = project)}}

\* What a platform can be: things of a project exist with it, one of each name.
Possible(platform) ==
  /\ \A t \in platform : t.kind \in ProjectScopedKinds =>
       Found(platform, "Project", t.project, Empty) # {}
  /\ \A t, u \in platform :
       t.kind = u.kind /\ t.name = u.name /\ t.project = u.project => t = u
=============================================================================
