------------------------------- MODULE Access --------------------------------
(***************************************************************************)
(* Who may do what: teams, their members and their access rows, the api     *)
(* keys, and the answers of services/rbac.  Several routines answer the     *)
(* same question each in its own way (a check, a listing, the flags of a    *)
(* response, the audience of a notification, the roll-up of a dashboard);   *)
(* this module has each of them, and the handlers that change what they    *)
(* read.  Permissions are those of the module Permissions.                 *)
(*                                                                         *)
(* A handler is one step: its check and its write.  Regenerating a team's   *)
(* token is two, the old one goes before the new one is there.             *)
(***************************************************************************)
EXTENDS Permissions, FiniteSets

CONSTANTS
    Users, Orgs, Teams, Projects, Workspaces, Keys,
    Org,               \* the organization a team or project id belongs to
    ProjectOf,         \* the project of a workspace
    Groups,            \* the groups an identity provider asserts
    Names,             \* names of teams: "owners", "viewers" and others
    Nobody,            \* no owner, no group, no scope
    RemoveFromNonSSOTeams, \* the setting of the team sync
    OwnersTeam, ViewersTeam, \* the teams an organization's creation makes,
    DefaultProject,          \* and the project
    AccessRequests,    \* bound: organization access asked for, [on, off]
    RowRequests,       \* bound: access rows asked for, [access, custom]
    ScopeRequests,     \* bound: sets of scopes keys are asked for
    MaxChanges         \* bound: requests that change something

ScopeLevels == {"read", "write", "admin"}
Scope == [type: {"org"}, id: Orgs, level: ScopeLevels]
         \cup [type: {"team"}, id: Teams, level: ScopeLevels]
         \cup [type: {"project"}, id: Projects, level: ScopeLevels]

ASSUME ConstantsAssumption ==
    /\ Org \in [Teams \cup Projects -> Orgs]
    /\ Teams \cap Projects = {}
    /\ ProjectOf \in [Workspaces -> Projects]
    /\ Nobody \notin Users \cup Groups \cup Teams \cup Projects \cup Orgs
    /\ {"owners", "viewers"} \subseteq Names /\ Names \cap {"unmade", "gone"} = {}
    /\ OwnersTeam \in [Orgs -> Teams] /\ ViewersTeam \in [Orgs -> Teams]
    /\ DefaultProject \in [Orgs -> Projects]
    /\ \A o \in Orgs : /\ Org[OwnersTeam[o]] = o /\ Org[ViewersTeam[o]] = o
                       /\ Org[DefaultProject[o]] = o /\ OwnersTeam[o] # ViewersTeam[o]
    /\ RemoveFromNonSSOTeams \in BOOLEAN
    /\ AccessRequests \subseteq [on: SUBSET OrgFlags, off: SUBSET OrgFlags]
    /\ \A q \in RowRequests : /\ q.access \in ProjectLevels \cup WorkspaceLevels
                              /\ \A f \in DOMAIN q.custom : q.custom[f] \in CustomLevels
    /\ ScopeRequests \subseteq SUBSET Scope
    /\ MaxChanges \in Nat

VARIABLES
    name,       \* a team's name; "unmade" before there is one, "gone" after
    sso,        \* the group whose members the sync puts into the team
    access,     \* the team's organization access: the flags set
    members,    \* the users of the team
    orgMembers, \* organization_members: <<user, organization>>
    projectAccess,   \* access rows, by <<team, project>>
    workspaceAccess, \* access rows, by <<team, workspace>>
    keys,       \* the api keys there are
    minting,    \* team tokens whose predecessor is gone, themselves not there yet
    changes     \* counts the requests that changed something

vars == <<name, sso, access, members, orgMembers, projectAccess, workspaceAccess,
          keys, minting, changes>>
teamVars == <<name, sso, access>>
rowVars  == <<projectAccess, workspaceAccess>>
keyVars  == <<keys, minting>>

NoRow == [access |-> "none", custom |-> NoCustom]
Key   == [id: Keys, owner: Users, org: Orgs, scopes: SUBSET Scope,
          team: Teams \cup {Nobody}] \* the team of a team token
Exists(t) == name[t] \notin {"unmade", "gone"}

-----------------------------------------------------------------------------
(* The caller: the user, and for a scoped key the subject it is judged as.  *)

TeamsByUser(u, o) == {t \in Teams : Exists(t) /\ Org[t] = o /\ u \in members[t]}
UserInOrgRepo(u, o) == TeamsByUser(u, o) # {}

NoSubject == [kind |-> "none", org |-> Nobody, team |-> Nobody, project |-> Nobody,
              levels |-> {}, denied |-> FALSE]
TeamSubject(o, t, denied) ==
    [kind |-> "team", org |-> o, team |-> t, project |-> Nobody, levels |-> {},
     denied |-> denied]
ProjectSubject(o, p, levels) ==
    [kind |-> "project", org |-> o, team |-> Nobody, project |-> p,
     levels |-> levels, denied |-> FALSE]

Scopes(k, type) == {s \in k.scopes : s.type = type}

(* a mutant: membership of the scoped team is taken on trust *)
SubjectOfFormerMember(k) ==
    IF k.team # Nobody THEN TeamSubject(k.org, k.team, FALSE)
    ELSE IF Scopes(k, "org") # {} THEN NoSubject
    ELSE IF Scopes(k, "team") # {}
      THEN TeamSubject(k.org, (CHOOSE s \in Scopes(k, "team") : TRUE).id, FALSE)
    ELSE NoSubject

SubjectForAPIKey(k) ==
    IF k.team # Nobody THEN TeamSubject(k.org, k.team, FALSE)
    ELSE IF Scopes(k, "org") # {} THEN NoSubject
    ELSE IF Scopes(k, "team") # {}
      THEN LET t == (CHOOSE s \in Scopes(k, "team") : TRUE).id
           IN  TeamSubject(k.org, t, k.owner \notin members[t])
    ELSE IF Scopes(k, "project") # {}
      THEN LET p == (CHOOSE s \in Scopes(k, "project") : TRUE).id
           IN  ProjectSubject(k.org, p, {s.level : s \in Scopes(k, "project")})
    ELSE NoSubject

Session(u) == [user |-> u, subject |-> NoSubject]
KeyCaller(k) == [user |-> k.owner, subject |-> SubjectForAPIKey(k)]

inOrg(c, o) ==
    CASE c.subject.kind = "none"    -> UserInOrgRepo(c.user, o)
      [] c.subject.kind = "project" -> c.subject.org = o /\ UserInOrgRepo(c.user, o)
      [] c.subject.kind = "team"    -> c.subject.org = o /\ ~c.subject.denied

teamsOf(c, o) ==
    IF c.subject.kind # "team" THEN TeamsByUser(c.user, o)
    ELSE IF inOrg(c, o)
      THEN {t \in {c.subject.team} : Exists(t) /\ Org[t] = o} ELSE {}

(* What the key's project scope lets through on resources of a project: its *)
(* highest level, mapped as a row of project access.                       *)
Highest(levels) == IF "admin" \in levels THEN "admin"
                   ELSE IF "write" \in levels THEN "write" ELSE "read"
projectScopeAllows(subject, p) ==
    IF subject.project = p
      THEN getPermissionsFromProjectAccess(
             [access |-> Highest(subject.levels), custom |-> NoCustom])
      ELSE {}

-----------------------------------------------------------------------------
(* The checks.                                                             *)

memberOfOwnersTeam(teams) == \E t \in teams : name[t] = "owners"

OrganizationLeg(teams) ==
    UNION {getPermissionsFromOrganizationAccess(access[t]) : t \in teams}
ProjectLeg(teams, p) ==
    UNION {getPermissionsFromProjectAccess(projectAccess[tp]) :
             tp \in {x \in DOMAIN projectAccess : x[1] \in teams /\ x[2] = p}}
WorkspaceLeg(teams, w) ==
    UNION {getPermissionsFromWorkspaceAccess(workspaceAccess[tw]) :
             tw \in {x \in DOMAIN workspaceAccess : x[1] \in teams /\ x[2] = w}}

(* permits: what the teams' grants allow on a resource of project p, which  *)
(* is the workspace w or, with Nobody, none.                               *)
permits(teams, p, w) ==
    IF memberOfOwnersTeam(teams) THEN AllPermissions
    ELSE OrganizationLeg(teams) \cup ProjectLeg(teams, p) \cup WorkspaceLeg(teams, w)

(* CheckResourcePermission, as the set of permissions it answers yes to.    *)
CheckResourcePermission(c, p, w) ==
    LET held == IF inOrg(c, Org[p]) THEN permits(teamsOf(c, Org[p]), p, w) ELSE {}
    IN  IF c.subject.kind = "project"
          THEN LET owner == Session(c.user)
               IN  projectScopeAllows(c.subject, p) \cap
                   (IF inOrg(owner, Org[p]) THEN permits(teamsOf(owner, Org[p]), p, w)
                    ELSE {})
          ELSE held

CheckWorkspace(c, w) == CheckResourcePermission(c, ProjectOf[w], w)

(* checkOrgPermission, as the set of permissions it answers yes to.         *)
checkOrgPermission(c, o) ==
    IF c.subject.kind = "project" \/ ~inOrg(c, o) THEN {}
    ELSE IF memberOfOwnersTeam(teamsOf(c, o)) THEN AllPermissions
    ELSE OrganizationLeg(teamsOf(c, o))

CheckOrgManageTeams(c, o)      == "org:manage-teams" \in checkOrgPermission(c, o)
CheckOrgManageMembership(c, o) == "org:manage-membership" \in checkOrgPermission(c, o)
IsOrgOwner(c, o) == /\ c.subject.kind # "project" /\ inOrg(c, o)
                    /\ memberOfOwnersTeam(teamsOf(c, o))

HasRow(teams, rows, x, levels) ==
    \E tx \in DOMAIN rows : tx[1] \in teams /\ tx[2] = x /\ rows[tx].access \in levels

CheckWorkspaceAdminPermission(c, w) ==
    LET p == ProjectOf[w]
        by == IF c.subject.kind = "project" THEN Session(c.user) ELSE c
    IN  /\ c.subject.kind = "project" =>
             c.subject.project = p /\ "admin" \in c.subject.levels
        /\ \/ "org:manage-workspaces" \in checkOrgPermission(by, Org[p])
           \/ HasRow(teamsOf(by, Org[p]), projectAccess, p, {"admin", "maintain"})
           \/ HasRow(teamsOf(by, Org[p]), workspaceAccess, w, {"admin"})

-----------------------------------------------------------------------------
(* The other answers to the same questions.                                *)

(* OrgPermissionsForOrganizations, for the one organization o.              *)
OrgPermissionsForOrganizations(c, o) ==
    LET teams == CASE c.subject.kind = "none" -> TeamsByUser(c.user, o)
                   [] c.subject.kind = "team" ->
                        IF c.subject.org = o THEN teamsOf(c, o) ELSE {}
                   [] c.subject.kind = "project" -> {}
    IN  IF memberOfOwnersTeam(teams) THEN ownerPermissions
        ELSE OrganizationLeg({t \in teams : name[t] # "owners"})

(* ReadsWholeOrganization, which keeps a roll-up from being narrowed.       *)
(* a mutant: the Ansible kinds are forgotten *)
ReadsWorkspacesAndProjects(perms) == {"org:read-workspaces", "org:read-projects"} \subseteq perms

ReadsWholeOrganization(perms) ==
    {"org:read-workspaces", "org:read-projects", "org:read-ansible",
     "ansible:playbook:read", "ansible:job:read", "ansible:job-template:read",
     "ansible:inventory:read"} \subseteq perms

(* readable: the permissions under which a listing of o keeps an item of    *)
(* project p; every grant the teams hold is loaded, then each item judged.  *)
readable(c, o, p, w) ==
    LET by == IF c.subject.kind = "project" THEN Session(c.user) ELSE c
        cap == IF c.subject.kind = "project" THEN projectScopeAllows(c.subject, p)
               ELSE AllPermissions
    IN  IF ~inOrg(by, o) THEN {} ELSE cap \cap permits(teamsOf(by, o), p, w)

(* AddDashboardScope: the workspaces and projects of o a dashboard counts,  *)
(* and for each Ansible kind the projects it counts that kind in.           *)
DashboardReads == {"ansible:playbook:read", "ansible:job:read",
                   "ansible:job-template:read", "ansible:inventory:read"}
ProjectsIn(o)   == {p \in Projects : Org[p] = o}
WorkspacesIn(o) == {w \in Workspaces : Org[ProjectOf[w]] = o}
AddDashboardScope(c, o) ==
    [workspaces |-> {w \in WorkspacesIn(o) :
                       "workspace:read" \in readable(c, o, ProjectOf[w], w)},
     projects   |-> {p \in ProjectsIn(o) : "project:read" \in readable(c, o, p, Nobody)},
     ansible    |-> [kind \in DashboardReads |->
                       {p \in ProjectsIn(o) : kind \in readable(c, o, p, Nobody)}]]

(* ListTeamsWithWorkspaceAccess: the teams told of a change request on w.   *)
Reaches(perms) == perms \cap {"workspace:read", "workspace:write"} # {}
(* a mutant: rows of project access are forgotten *)
teamReachesOutsideProject(t, w) ==
    \/ name[t] = "owners" \/ Reaches(getPermissionsFromOrganizationAccess(access[t]))
    \/ Reaches(WorkspaceLeg({t}, w))

teamReachesWorkspace(t, w) ==
    \/ name[t] = "owners"
    \/ Reaches(getPermissionsFromOrganizationAccess(access[t]))
    \/ \E p \in {ProjectOf[w]} : <<t, p>> \in DOMAIN projectAccess
         /\ Reaches(getPermissionsFromProjectAccess(projectAccess[<<t, p>>]))
    \/ /\ <<t, w>> \in DOMAIN workspaceAccess
       /\ Reaches(getPermissionsFromWorkspaceAccess(workspaceAccess[<<t, w>>]))
ListTeamsWithWorkspaceAccess(w) ==
    {t \in Teams : Exists(t) /\ Org[t] = Org[ProjectOf[w]] /\ teamReachesWorkspace(t, w)}

(* WorkspaceGrants, loaded for a user whatever its token, and the flags of  *)
(* a workspace response made from it.                                      *)
LoadWorkspaceGrants(u, o) ==
    LET teams == TeamsByUser(u, o)
        owner == memberOfOwnersTeam(teams)
    IN  [inOrg |-> teams # {}, owner |-> owner,
         teams |-> IF owner THEN {} ELSE teams,
         orgPerms |-> IF owner THEN {} ELSE OrganizationLeg(teams)]

Has(g, w, permission) ==
    /\ g.inOrg
    /\ \/ g.owner \/ permission \in g.orgPerms
       \/ permission \in ProjectLeg(g.teams, ProjectOf[w])
       \/ permission \in WorkspaceLeg(g.teams, w)
ManagesWorkspaces(g) == g.inOrg /\ (g.owner \/ "org:manage-workspaces" \in g.orgPerms)
(* a mutant: maintaining the project does not count *)
IsAdminByName(g, w) ==
    ManagesWorkspaces(g) \/ HasRow(g.teams, projectAccess, ProjectOf[w], {"admin"})
    \/ HasRow(g.teams, workspaceAccess, w, {"admin"})
IsWorkspaceAdmin(g, w) ==
    \/ ManagesWorkspaces(g)
    \/ HasRow(g.teams, projectAccess, ProjectOf[w], {"admin", "maintain"})
    \/ HasRow(g.teams, workspaceAccess, w, {"admin"})

Flags(u, w) ==
    LET g == LoadWorkspaceGrants(u, Org[ProjectOf[w]])
        write == Has(g, w, "workspace:write")
    IN  [queueRun       |-> Has(g, w, "runs") /\ write,
         updateVariable |-> Has(g, w, "variables") /\ write,
         readSettings   |-> g.inOrg,
         update         |-> ManagesWorkspaces(g) \/ write,
         lock           |-> Has(g, w, "workspace_locking"),
         forceUnlock    |-> IsWorkspaceAdmin(g, w)]

-----------------------------------------------------------------------------
Init ==
    /\ name = [t \in Teams |-> "unmade"]
    /\ sso = [t \in Teams |-> Nobody]
    /\ access = [t \in Teams |-> {}]
    /\ members = [t \in Teams |-> {}]
    /\ orgMembers = {}
    /\ projectAccess = [tp \in {} |-> NoRow] /\ workspaceAccess = [tw \in {} |-> NoRow]
    /\ keys = {} /\ minting = {} /\ changes = 0

Callers == {Session(u) : u \in Users} \cup {KeyCaller(k) : k \in keys}

(* Organizations.  A creation that fails takes back what it has made.  The  *)
(* flags of the owners team are all but the Ansible ones.                  *)
OwnersAccess == OrgPermissions \ {"org:manage-ansible", "org:read-ansible"}

CreateOrganization(u, o) ==
    LET owners  == OwnersTeam[o]
        viewers == ViewersTeam[o]
    IN  /\ name[owners] = "unmade" /\ name[viewers] = "unmade"
        /\ name' = [name EXCEPT ![owners] = "owners", ![viewers] = "viewers"]
        /\ access' = [access EXCEPT ![owners] = OwnersAccess,
                        ![viewers] = {"org:read-workspaces", "org:read-projects"}]
        /\ members' = [members EXCEPT ![owners] = {u}]
        /\ orgMembers' = orgMembers \cup {<<u, o>>}
        /\ projectAccess' = [tp \in DOMAIN projectAccess \cup {<<owners, DefaultProject[o]>>} |->
             IF tp = <<owners, DefaultProject[o]>> THEN [access |-> "admin", custom |-> NoCustom]
             ELSE projectAccess[tp]]
        /\ UNCHANGED <<sso, workspaceAccess, keyVars>>

Made(o) == name[OwnersTeam[o]] # "unmade"

NameFree(o, n) == \A t \in Teams : Org[t] = o => name[t] # n

(* Teams.  Create stores the team before it refuses the name "owners", and  *)
(* the team refused stays; it has no organization access then.             *)
CreateTeam(c, t, n, group, req) ==
    /\ name[t] = "unmade" /\ Made(Org[t])
    /\ CheckOrgManageTeams(c, Org[t])
    /\ NameFree(Org[t], n)
    /\ name' = [name EXCEPT ![t] = n]
    /\ sso' = [sso EXCEPT ![t] = group]
    /\ access' = [access EXCEPT ![t] =
                    IF n = "owners" THEN {} ELSE updateOrganizationAccessFromRequest({}, req)]
    /\ UNCHANGED <<members, orgMembers, rowVars, keyVars>>

(* A new name is taken before the request's flags are refused for a team    *)
(* named owners; refused, nothing of it is stored.                         *)
UpdateTeam(c, t, n, group, req) ==
    /\ Exists(t)
    /\ CheckOrgManageTeams(c, Org[t])
    /\ n = name[t] \/ NameFree(Org[t], n)
    /\ req # Nobody => n # "owners"
    /\ name' = [name EXCEPT ![t] = n]
    /\ access' = [access EXCEPT ![t] =
                    IF req = Nobody THEN @ ELSE updateOrganizationAccessFromRequest(@, req)]
    /\ sso' = [sso EXCEPT ![t] = IF group = Nobody THEN @ ELSE group]
    /\ UNCHANGED <<members, orgMembers, rowVars, keyVars>>

(* A team takes its access rows along.  Its keys stay.                      *)
DeleteTeam(c, t) ==
    /\ Exists(t) /\ name[t] \notin {"owners", "viewers"}
    /\ CheckOrgManageTeams(c, Org[t])
    /\ name' = [name EXCEPT ![t] = "gone"]
    /\ sso' = [sso EXCEPT ![t] = Nobody]
    /\ access' = [access EXCEPT ![t] = {}]
    /\ members' = [members EXCEPT ![t] = {}]
    /\ projectAccess' = [tp \in {x \in DOMAIN projectAccess : x[1] # t} |-> projectAccess[tp]]
    /\ workspaceAccess' = [tw \in {x \in DOMAIN workspaceAccess : x[1] # t} |-> workspaceAccess[tw]]
    /\ UNCHANGED <<orgMembers, keyVars>>

-----------------------------------------------------------------------------
(* Access rows.                                                            *)

Filled(custom) == [f \in CustomFields |->
                     IF f \in DOMAIN custom THEN custom[f] ELSE "none"]
Merged(old, custom) == [f \in CustomFields |->
                          IF f \in DOMAIN custom THEN custom[f] ELSE old[f]]

(* A request with a level clears the custom fields, one with custom fields  *)
(* lays them over the row's, and a workspace's row then has no level.       *)
ProjectRow(old, q) ==
    IF q.access = "custom" THEN [access |-> "custom", custom |-> Merged(old, q.custom)]
    ELSE [access |-> q.access, custom |-> NoCustom]
(* a mutant: the custom fields of the request replace the row's *)
RowReplaced(old, q) == [access |-> q.access, custom |-> q.custom]

WorkspaceRow(old, q) ==
    IF q.access \in {"custom", "none"}
      THEN [access |-> "none", custom |-> Merged(old, q.custom)]
    ELSE [access |-> q.access, custom |-> NoCustom]

CreateProjectAccess(c, t, p, q) ==
    /\ Exists(t) /\ Org[t] = Org[p]
    /\ CheckOrgManageTeams(c, Org[p])
    /\ <<t, p>> \notin DOMAIN projectAccess
    /\ q.access \in ProjectLevels
    /\ projectAccess' = [tp \in DOMAIN projectAccess \cup {<<t, p>>} |->
         IF tp = <<t, p>> THEN ProjectRow(NoCustom, q) ELSE projectAccess[tp]]
    /\ UNCHANGED <<teamVars, members, orgMembers, workspaceAccess, keyVars>>

UpdateProjectAccess(c, t, p, q) ==
    /\ <<t, p>> \in DOMAIN projectAccess
    /\ CheckOrgManageTeams(c, Org[p])
    /\ q.access \in ProjectLevels
    /\ projectAccess' = [projectAccess EXCEPT ![<<t, p>>] = ProjectRow(@.custom, q)]
    /\ UNCHANGED <<teamVars, members, orgMembers, workspaceAccess, keyVars>>

DeleteProjectAccess(c, t, p) ==
    /\ <<t, p>> \in DOMAIN projectAccess
    /\ CheckOrgManageTeams(c, Org[p])
    /\ projectAccess' = [tp \in DOMAIN projectAccess \ {<<t, p>>} |-> projectAccess[tp]]
    /\ UNCHANGED <<teamVars, members, orgMembers, workspaceAccess, keyVars>>

CreateWorkspaceAccess(c, t, w, q) ==
    /\ Exists(t) /\ Org[t] = Org[ProjectOf[w]]
    /\ CheckOrgManageTeams(c, Org[t])
    /\ <<t, w>> \notin DOMAIN workspaceAccess
    /\ q.access \in WorkspaceLevels \cup {"custom"}
    /\ workspaceAccess' = [tw \in DOMAIN workspaceAccess \cup {<<t, w>>} |->
         IF tw = <<t, w>> THEN WorkspaceRow(NoCustom, q) ELSE workspaceAccess[tw]]
    /\ UNCHANGED <<teamVars, members, orgMembers, projectAccess, keyVars>>

UpdateWorkspaceAccess(c, t, w, q) ==
    /\ <<t, w>> \in DOMAIN workspaceAccess
    /\ CheckOrgManageTeams(c, Org[ProjectOf[w]])
    /\ q.access \in WorkspaceLevels \cup {"custom"}
    /\ workspaceAccess' = [workspaceAccess EXCEPT ![<<t, w>>] = WorkspaceRow(@.custom, q)]
    /\ UNCHANGED <<teamVars, members, orgMembers, projectAccess, keyVars>>

DeleteWorkspaceAccess(c, t, w) ==
    /\ <<t, w>> \in DOMAIN workspaceAccess
    /\ CheckOrgManageTeams(c, Org[ProjectOf[w]])
    /\ workspaceAccess' = [tw \in DOMAIN workspaceAccess \ {<<t, w>>} |-> workspaceAccess[tw]]
    /\ UNCHANGED <<teamVars, members, orgMembers, projectAccess, keyVars>>

-----------------------------------------------------------------------------
(* Members.  The owners team is its owners' to manage.                      *)

requireTeamMembershipManagement(c, t) ==
    IF name[t] = "owners" THEN IsOrgOwner(c, Org[t])
    ELSE CheckOrgManageTeams(c, Org[t]) \/ CheckOrgManageMembership(c, Org[t])

AddUsers(c, t, u) ==
    /\ Exists(t) /\ u \notin members[t]
    /\ requireTeamMembershipManagement(c, t)
    /\ <<u, Org[t]>> \in orgMembers
    /\ members' = [members EXCEPT ![t] = @ \cup {u}]
    /\ UNCHANGED <<teamVars, orgMembers, rowVars, keyVars>>

(* Someone who left the organization can still be taken out of a team.      *)
RemoveUsers(c, t, u) ==
    /\ Exists(t) /\ u \in members[t]
    /\ requireTeamMembershipManagement(c, t)
    /\ members' = [members EXCEPT ![t] = @ \ {u}]
    /\ UNCHANGED <<teamVars, orgMembers, rowVars, keyVars>>

CreateMembership(c, u, o) ==
    /\ CheckOrgManageMembership(c, o)
    /\ <<u, o>> \notin orgMembers
    /\ orgMembers' = orgMembers \cup {<<u, o>>}
    /\ UNCHANGED <<teamVars, members, rowVars, keyVars>>

(* The memberships of teams stay.                                          *)
DeleteMembership(c, u, o) ==
    /\ <<u, o>> \in orgMembers
    /\ CheckOrgManageMembership(c, o)
    /\ orgMembers' = orgMembers \ {<<u, o>>}
    /\ UNCHANGED <<teamVars, members, rowVars, keyVars>>

(* A sign-in whose claims name some groups, and team sync enabled.          *)
SyncUserTeams(u, groups) ==
    LET matching == {t \in Teams : Exists(t) /\ sso[t] \in groups}
        stale(t) == Exists(t) /\ sso[t] # Nobody /\ sso[t] \notin groups
    IN  /\ groups # {}
        /\ orgMembers' = orgMembers \cup {<<u, Org[t]>> : t \in matching}
        /\ members' = [t \in Teams |->
             IF t \in matching THEN members[t] \cup {u}
             ELSE IF RemoveFromNonSSOTeams /\ stale(t) THEN members[t] \ {u}
             ELSE members[t]]
        /\ UNCHANGED <<teamVars, rowVars, keyVars>>

-----------------------------------------------------------------------------
(* Keys.                                                                   *)

FreeKey(id) == \A k \in keys : k.id # id

(* The organization a scope binds its key to.                              *)
ScopeOrg(s) == IF s.type = "org" THEN s.id ELSE Org[s.id]

(* The scopes of one key name one organization its owner is in, at most one *)
(* team and at most one project.                                           *)
CreateAPIKey(u, id, scopes) ==
    /\ FreeKey(id) /\ scopes # {}
    /\ \E o \in Orgs :
         /\ \A s \in scopes : ScopeOrg(s) = o /\ (s.type = "team" => Exists(s.id))
         /\ UserInOrgRepo(u, o)
         /\ keys' = keys \cup {[id |-> id, owner |-> u, org |-> o, scopes |-> scopes,
                                team |-> Nobody]}
    /\ \A type \in {"team", "project"} :
         Cardinality({s.id : s \in {x \in scopes : x.type = type}}) <= 1
    /\ UNCHANGED <<teamVars, members, orgMembers, rowVars, minting>>

DeleteAPIKey(u, k) ==
    /\ k \in keys /\ k.owner = u
    /\ keys' = keys \ {k}
    /\ UNCHANGED <<teamVars, members, orgMembers, rowVars, minting>>

(* CreateTeamToken deletes the team's tokens, then stores the new one.      *)
RegenerateTeamToken(c, t) ==
    /\ Exists(t) /\ IsOrgOwner(c, Org[t])
    /\ keys' = {k \in keys : k.team # t}
    /\ minting' = minting \cup {[team |-> t, owner |-> c.user]}
    /\ UNCHANGED <<teamVars, members, orgMembers, rowVars>>

StoreTeamToken(m, id) ==
    /\ m \in minting /\ FreeKey(id)
    /\ keys' = keys \cup {[id |-> id, owner |-> m.owner, org |-> Org[m.team], team |-> m.team,
                           scopes |-> {[type |-> "team", id |-> m.team, level |-> "admin"]}]}
    /\ minting' = minting \ {m}
    /\ UNCHANGED <<teamVars, members, orgMembers, rowVars>>

DeleteTeamToken(c, t) ==
    /\ Exists(t) /\ IsOrgOwner(c, Org[t])
    /\ \E k \in keys : k.team = t
    /\ keys' = {k \in keys : k.team # t}
    /\ UNCHANGED <<teamVars, members, orgMembers, rowVars, minting>>

-----------------------------------------------------------------------------
TeamStep ==
    \E c \in Callers, t \in Teams :
      \/ \E n \in Names, g \in Groups \cup {Nobody}, q \in AccessRequests :
           CreateTeam(c, t, n, g, q)
      \/ \E n \in Names, g \in Groups \cup {Nobody}, q \in AccessRequests \cup {Nobody} :
           UpdateTeam(c, t, n, g, q)
      \/ DeleteTeam(c, t)
      \/ RegenerateTeamToken(c, t)
      \/ DeleteTeamToken(c, t)

RowStep ==
    \E c \in Callers, t \in Teams :
      \/ \E p \in Projects :
           \/ DeleteProjectAccess(c, t, p)
           \/ \E q \in RowRequests : CreateProjectAccess(c, t, p, q)
                                     \/ UpdateProjectAccess(c, t, p, q)
      \/ \E w \in Workspaces :
           \/ DeleteWorkspaceAccess(c, t, w)
           \/ \E q \in RowRequests : CreateWorkspaceAccess(c, t, w, q)
                                     \/ UpdateWorkspaceAccess(c, t, w, q)

MemberStep ==
    \/ \E c \in Callers, u \in Users :
         \/ \E t \in Teams : AddUsers(c, t, u) \/ RemoveUsers(c, t, u)
         \/ \E o \in Orgs : CreateMembership(c, u, o) \/ DeleteMembership(c, u, o)
    \/ \E u \in Users, groups \in SUBSET Groups : SyncUserTeams(u, groups)

KeyStep ==
    \E u \in Users :
      \/ \E id \in Keys, scopes \in ScopeRequests : CreateAPIKey(u, id, scopes)
      \/ \E k \in keys : DeleteAPIKey(u, k)

StoreStep == \E m \in minting, id \in Keys : StoreTeamToken(m, id)

Next ==
    \/ /\ \E u \in Users, o \in Orgs : CreateOrganization(u, o)
       /\ UNCHANGED changes
    \/ /\ changes < MaxChanges
       /\ changes' = changes + 1
       /\ TeamStep \/ RowStep \/ MemberStep \/ KeyStep \/ StoreStep

Spec == Init /\ [][Next]_vars

-----------------------------------------------------------------------------
(* The state has its type.                                                 *)
TypeOK ==
    /\ name \in [Teams -> Names \cup {"unmade", "gone"}]
    /\ sso \in [Teams -> Groups \cup {Nobody}]
    /\ access \in [Teams -> SUBSET OrgFlags]
    /\ members \in [Teams -> SUBSET Users]
    /\ orgMembers \subseteq Users \X Orgs
    /\ DOMAIN projectAccess \subseteq Teams \X Projects
    /\ \A tp \in DOMAIN projectAccess : projectAccess[tp] \in Row
    /\ DOMAIN workspaceAccess \subseteq Teams \X Workspaces
    /\ \A tw \in DOMAIN workspaceAccess : workspaceAccess[tw] \in Row
    /\ keys \subseteq Key
    /\ minting \subseteq [team: Teams, owner: Users]
    /\ changes \in Nat

(* A key never holds more than the user it belongs to, on any workspace or  *)
(* project and in any organization: whatever it is scoped to, and whatever  *)
(* became of its owner's teams and of their access after it was made.  A    *)
(* team token is not its maker's: it holds what its team holds.            *)
KeyWithinOwner ==
    \A k \in keys :
      LET owner == IF k.team = Nobody THEN TeamsByUser(k.owner, k.org)
                   ELSE {t \in {k.team} : Exists(t)}
      IN  /\ \A o \in Orgs :
               checkOrgPermission(KeyCaller(k), o) \subseteq
                 IF k.team = Nobody THEN checkOrgPermission(Session(k.owner), o)
                 ELSE IF memberOfOwnersTeam(owner) THEN AllPermissions
                 ELSE OrganizationLeg(owner)
          /\ \A w \in Workspaces :
               CheckWorkspace(KeyCaller(k), w) \subseteq
                 IF k.team = Nobody THEN CheckWorkspace(Session(k.owner), w)
                 ELSE permits(owner, ProjectOf[w], w)

(* The teams told of a change request on a workspace are those whose        *)
(* members read or write it: no reader is left out and nobody else is told. *)
AudienceIsReaders ==
    \A w \in Workspaces, u \in Users :
      Reaches(CheckWorkspace(Session(u), w)) <=>
        \E t \in ListTeamsWithWorkspaceAccess(w) : u \in members[t]

(* The flags of a workspace response are the answers of the checks that the *)
(* flagged actions make, for the user itself and for a key without scope to *)
(* narrow it.                                                              *)
FlagsAgree ==
    \A w \in Workspaces, u \in Users :
      LET c == Session(u)
          perms == CheckWorkspace(c, w)
      IN  Flags(u, w) =
            [queueRun       |-> {"runs", "workspace:write"} \subseteq perms,
             updateVariable |-> {"variables", "workspace:write"} \subseteq perms,
             readSettings   |-> inOrg(c, Org[ProjectOf[w]]),
             update         |-> \/ "org:manage-workspaces" \in checkOrgPermission(c, Org[ProjectOf[w]])
                                \/ "workspace:write" \in perms,
             lock           |-> "workspace_locking" \in perms,
             forceUnlock    |-> CheckWorkspaceAdminPermission(c, w)]

(* Whoever is found to read a whole organization is shown all of it: no     *)
(* check of one of its resources refuses what the roll-up counts unasked,   *)
(* and a dashboard narrowed to the caller counts just the same.            *)
WholeOrganizationReads ==
    \A c \in Callers, o \in Orgs :
      ReadsWholeOrganization(OrgPermissionsForOrganizations(c, o)) =>
        /\ AddDashboardScope(c, o) =
             [workspaces |-> WorkspacesIn(o), projects |-> ProjectsIn(o),
              ansible |-> [kind \in DashboardReads |-> ProjectsIn(o)]]
        /\ "org:read-ansible" \in checkOrgPermission(c, o)
        /\ \A w \in WorkspacesIn(o) : "workspace:read" \in CheckWorkspace(c, w)
=============================================================================
