----------------------------- MODULE MCReferences -----------------------------
(* References for TLC: one to three objects of every kind that has any, two *)
(* projects p and q, and on the platform at most two things of a kind.      *)
EXTENDS ReferenceCompletion

Obj(kind, fields) == [kind |-> kind, fields |-> fields]
In(kind, project, name) == [kind |-> kind, name |-> name, project |-> project, objectives |-> {}]

AllThings ==
  {In("Project", "", "p"), In("Project", "", "q"),
   In("Service", "p", "svc"), In("Service", "q", "svc"), In("AlertPolicy", "p", "ap"),
   In("AlertPolicy", "q", "ap"), In("AlertMethod", "p", "am"), In("AlertMethod", "q", "am"),
   In("Agent", "p", "src"), In("Agent", "q", "src"), In("Direct", "p", "src"),
   In("UserGroup", "", "grp"), In("User", "", "usr"), In("User", "", "usr2"),
   In("ProjectRole", "", "role"), In("OrganizationRole", "", "role"),
   In("OrganizationRole", "", "admin"), In("SLO", "p", "slo"),
   [In("SLO", "p", "slo") EXCEPT !.objectives = {"good"}],
   [In("SLO", "q", "slo") EXCEPT !.objectives = {"good"}],
   [In("SLO", "q", "slo") EXCEPT !.objectives = {"fast"}]}

At(field) == <<field, <<>>>>
Own(p) == ProjectPath :> p

Source(field) == At("spec.indicator.metricSource." \o field)
Component(field, j) == <<"spec.objectives[*].composite.components.objectives[*]." \o field, <<1, j>>>>
NoData(field) == <<"spec.anomalyConfig.noData.alertMethods[*]." \o field, <<1>>>>
Method(field, i) == <<"spec.alertMethods[*].metadata." \o field, <<i>>>>
Filter(field, i) == <<"spec.filters." \o field, <<i>>>>

SLOs ==
  {Obj("SLO", Own("p") @@ At("spec.service") :> "svc" @@ <<"spec.alertPolicies[*]", <<1>>>> :> "ap"
        @@ <<"spec.alertPolicies[*]", <<2>>>> :> "" @@ NoData("name") :> "am"),
   Obj("SLO", Own("p") @@ Source("project") :> "q" @@ Source("name") :> "src"
        @@ NoData("name") :> "am" @@ NoData("project") :> "q"),
   Obj("SLO", Own("p") @@ Component("project", 1) :> "q" @@ Component("slo", 1) :> "slo"
        @@ Component("objective", 1) :> "good" @@ Component("project", 2) :> "p"
        @@ Component("slo", 2) :> "slo" @@ Component("objective", 2) :> "fast")}

DirectSource ==
  {Obj("SLO", Own("p") @@ At("spec.service") :> "svc" @@ Source("kind") :> "Direct"
        @@ Source("name") :> "src")}

Others ==
  {Obj("AlertPolicy", Own("p") @@ Method("name", 1) :> "am" @@ Method("project", 1) :> "q"
        @@ Method("name", 2) :> "am"),
   Obj("AlertSilence", Own("p") @@ At("spec.slo") :> "slo" @@ At("spec.alertPolicy.name") :> "ap"
        @@ At("spec.alertPolicy.project") :> "q"),
   Obj("Annotation", Own("p") @@ At("spec.slo") :> "slo" @@ At("spec.objectiveName") :> "good"),
   Obj("BudgetAdjustment", Filter("slos[*].project", 1) :> "p" @@ Filter("slos[*].name", 1) :> "slo"
        @@ Filter("slos[*].project", 2) :> "q" @@ Filter("slos[*].name", 2) :> "slo"),
   Obj("Report", Filter("projects[*]", 1) :> "p" @@ Filter("services[*].project", 1) :> "q"
        @@ Filter("services[*].name", 1) :> "svc" @@ Filter("slos[*].project", 1) :> "q"
        @@ Filter("slos[*].name", 1) :> "slo"),
   Obj("RoleBinding", At("spec.roleRef") :> "role" @@ At("spec.projectRef") :> "p"
        @@ At("spec.groupRef") :> "grp"),
   Obj("RoleBinding", At("spec.roleRef") :> "admin" @@ At("spec.user") :> "usr"),
   Obj("RoleBinding", At("spec.roleRef") :> "admin" @@ At("spec.projectRef") :> ""),
   Obj("UserGroup", <<"spec.members[*].id", <<1>>>> :> "usr" @@ <<"spec.members[*].id", <<2>>>> :> "usr2"),
   Obj("Service", Own("q"))}

AllObjects == SLOs \union DirectSource \union Others
=============================================================================
