----------------------------- MODULE Permissions -----------------------------
(***************************************************************************)
(* The permissions, and which of them a team's access rows grant: its       *)
(* organization access, its access to a project, its access to a workspace, *)
(* and the fixed set of the owners team.  A flag of the organization access *)
(* is named by the permission it stands for.                               *)
(***************************************************************************)
EXTENDS Naturals

OrgPermissions ==
    {"org:manage-workspaces", "org:read-workspaces", "org:manage-projects",
     "org:read-projects", "org:manage-teams", "org:manage-membership",
     "org:manage-organization-access", "org:manage-vcs-settings",
     "org:manage-providers", "org:manage-modules", "org:manage-policies",
     "org:manage-policy-overrides", "org:manage-run-tasks",
     "org:access-secret-teams", "org:manage-agent-pools", "org:manage-ansible",
     "org:read-ansible"}

ProjectPermissionSet == {"project:read", "project:write"}

WorkspacePermissionSet ==
    {"workspace:read", "workspace:write", "run:read", "run:write",
     "state_versions", "variables", "runs", "sentinel_mocks",
     "workspace_locking", "run_tasks"}

VariableSetPermissions == {"variable_sets_read", "variable_sets"}

(* The Ansible permissions come in pairs, the one that manages a kind and   *)
(* the one that reads it; ad hoc commands go with managing jobs.           *)
ReadOf ==
    [w \in {"ansible:playbook:write", "ansible:inventory:write",
            "ansible:credential:write", "ansible:job-template:write",
            "ansible:job:execute", "ansible:schedule:write"} |->
       CASE w = "ansible:playbook:write"     -> "ansible:playbook:read"
         [] w = "ansible:inventory:write"    -> "ansible:inventory:read"
         [] w = "ansible:credential:write"   -> "ansible:credential:read"
         [] w = "ansible:job-template:write" -> "ansible:job-template:read"
         [] w = "ansible:job:execute"        -> "ansible:job:read"
         [] w = "ansible:schedule:write"     -> "ansible:schedule:read"]

AnsibleWrites == DOMAIN ReadOf
AnsibleReads  == {ReadOf[w] : w \in AnsibleWrites}
AnsiblePermissions == AnsibleWrites \cup AnsibleReads \cup {"ansible:adhoc:execute"}

AllPermissions == OrgPermissions \cup ProjectPermissionSet \cup WorkspacePermissionSet
                  \cup VariableSetPermissions \cup AnsiblePermissions

ownerPermissions == OrgPermissions \cup AnsiblePermissions

-----------------------------------------------------------------------------
(* The organization access of a team: the flags that are set.              *)
OrgFlags == OrgPermissions \cup AnsibleWrites \cup AnsibleReads

(* What reading a workspace comes to, at every place that grants it.       *)
WorkspaceReads == {"workspace:read", "run:read", "state_versions", "variables",
                   "sentinel_mocks"}

Implied(f) ==
    CASE f = "org:manage-workspaces" -> {"org:read-workspaces"} \cup WorkspacePermissionSet
      [] f = "org:read-workspaces"   -> WorkspaceReads
      [] f = "org:manage-projects"   -> {"org:read-projects", "project:read"}
                                        \cup VariableSetPermissions
      [] f = "org:read-projects"     -> {"project:read", "variable_sets_read"}
      [] f = "org:manage-ansible"    -> {"org:read-ansible"} \cup AnsiblePermissions
      [] f = "org:read-ansible"      -> AnsibleReads
      [] f = "ansible:job:execute"   -> {"org:read-ansible", "ansible:job:read",
                                         "ansible:adhoc:execute"}
      [] f \in AnsibleWrites \ {"ansible:job:execute"} -> {"org:read-ansible", ReadOf[f]}
      [] f \in AnsibleReads          -> {"org:read-ansible"}
      [] OTHER                       -> {}

getPermissionsFromOrganizationAccess(access) ==
    access \cup UNION {Implied(f) : f \in access}

(* The flags that go when f is set, and those that come with it.           *)
Excludes(f) ==
    CASE f = "org:manage-ansible"    -> {"org:read-ansible"}
      [] f = "org:read-ansible"      -> {"org:manage-ansible"} \cup AnsibleWrites
      [] f \in AnsibleWrites         -> {ReadOf[f]}
      [] f \in AnsibleReads          -> {w \in AnsibleWrites : ReadOf[w] = f}
      [] f = "org:manage-projects"   -> {"org:read-projects"}
      [] f = "org:read-projects"     -> {"org:manage-projects"}
      [] f = "org:manage-workspaces" -> {"org:read-workspaces"}
      [] f = "org:read-workspaces"   -> {"org:manage-workspaces"}
      [] f = "org:manage-organization-access" -> {"org:manage-teams", "org:manage-membership"}
      [] f = "org:manage-teams"      -> {"org:manage-organization-access"}
      [] f = "org:manage-membership" -> {"org:manage-organization-access", "org:manage-teams"}
      [] OTHER                       -> {}

Brings(f) ==
    CASE f = "org:manage-ansible" -> AnsibleWrites \cup AnsibleReads
      [] f = "org:read-ansible"   -> AnsibleReads
      [] OTHER                    -> {}

(* A request sets the flags of "on" and resets those of "off".  The flags   *)
(* are taken in the code's order; those of one stage do not meddle.        *)
Toggle(access, req, stage) ==
    (access \ ((req.off \cap stage) \cup UNION {Excludes(f) : f \in req.on \cap stage}))
    \cup (req.on \cap stage) \cup UNION {Brings(f) : f \in req.on \cap stage}

updateOrganizationAccessFromRequest(access, req) ==
    LET parent   == Toggle(access, req, {"org:manage-ansible"})
        reading  == Toggle(parent, req, {"org:read-ansible"})
        manages  == Toggle(reading, req,
                      AnsibleWrites \cup {"org:manage-projects", "org:manage-workspaces"})
        reads    == Toggle(manages, req,
                      AnsibleReads \cup {"org:read-projects", "org:read-workspaces"})
        whole    == Toggle(reads, req, {"org:manage-organization-access"})
        teams    == Toggle(whole, req, {"org:manage-teams"})
        members  == Toggle(teams, req, {"org:manage-membership"})
    IN  Toggle(members, req,
          {"org:manage-policies", "org:manage-policy-overrides", "org:manage-vcs-settings",
           "org:manage-providers", "org:manage-modules", "org:manage-run-tasks",
           "org:access-secret-teams", "org:manage-agent-pools"})

-----------------------------------------------------------------------------
(* A row of project or workspace access: a level, and the custom fields.    *)
(* A field that is not set counts as "none".                               *)
CustomFields == {"runs", "variables", "state-versions", "sentinel-mocks", "locking",
                 "run-tasks", "variable-sets"}
CustomLevels == {"none", "read", "read-outputs", "plan", "apply", "write"}
Custom   == [CustomFields -> CustomLevels]
NoCustom == [f \in CustomFields |-> "none"]

CustomPermissions(c) ==
    (IF c["runs"] = "read" THEN {"run:read"} ELSE {}) \cup
    (IF c["runs"] \in {"plan", "apply"} THEN {"runs"} ELSE {}) \cup
    (IF c["variables"] # "none" THEN {"variables"} ELSE {}) \cup
    (IF c["state-versions"] # "none" THEN {"state_versions"} ELSE {}) \cup
    (IF c["sentinel-mocks"] = "read" THEN {"sentinel_mocks"} ELSE {}) \cup
    (IF c["locking"] # "none" THEN {"workspace_locking"} ELSE {}) \cup
    (IF c["run-tasks"] # "none" THEN {"run_tasks"} ELSE {})

CustomVariableSets(c) ==
    (IF c["variable-sets"] # "none" THEN {"variable_sets_read"} ELSE {}) \cup
    (IF c["variable-sets"] = "write" THEN {"variable_sets"} ELSE {})

ProjectLevels   == {"admin", "maintain", "write", "read", "custom"}
WorkspaceLevels == {"admin", "write", "plan", "read", "none"}
Row == [access: ProjectLevels \cup WorkspaceLevels, custom: Custom]

ProjectLevelPermissions(level) ==
    CASE level = "admin" -> ProjectPermissionSet \cup WorkspacePermissionSet
                            \cup AnsiblePermissions \cup VariableSetPermissions
      [] level \in {"maintain", "write"} ->
            (ProjectPermissionSet \cup WorkspacePermissionSet \cup AnsiblePermissions
             \cup VariableSetPermissions) \ {"sentinel_mocks"}
      [] level = "read" -> {"project:read", "variable_sets_read"} \cup WorkspaceReads
                           \cup AnsibleReads
      [] OTHER -> {}

getPermissionsFromProjectAccess(row) ==
    ProjectLevelPermissions(row.access) \cup
    IF row.access = "custom"
      THEN CustomPermissions(row.custom) \cup CustomVariableSets(row.custom) ELSE {}

WorkspaceLevelPermissions(level) ==
    CASE level = "admin" -> WorkspacePermissionSet
      [] level = "write" -> WorkspacePermissionSet \ {"sentinel_mocks"}
      [] level = "plan"  -> (WorkspaceReads \ {"sentinel_mocks"}) \cup {"runs"}
      [] level = "read"  -> WorkspaceReads
      [] OTHER -> {}

getPermissionsFromWorkspaceAccess(row) ==
    WorkspaceLevelPermissions(row.access) \cup CustomPermissions(row.custom)
=============================================================================
