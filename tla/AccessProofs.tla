---------------------------- MODULE AccessProofs -----------------------------
(***************************************************************************)
(* Proofs about Access, for any users, organizations, teams, projects,      *)
(* workspaces, keys and requests.  The agreements between the answers hold  *)
(* in every well-typed state: they are facts about the routines, whatever   *)
(* the handlers stored.                                                    *)
(***************************************************************************)
EXTENDS Access, TLAPS

-----------------------------------------------------------------------------
(* Permissions.                                                            *)

LEMMA WritesAreFlags ==
    /\ AnsibleWrites = {"ansible:playbook:write", "ansible:inventory:write",
                        "ansible:credential:write", "ansible:job-template:write",
                        "ansible:job:execute", "ansible:schedule:write"}
    /\ AnsibleReads = {"ansible:playbook:read", "ansible:inventory:read",
                       "ansible:credential:read", "ansible:job-template:read",
                       "ansible:job:read", "ansible:schedule:read"}
  BY DEF AnsibleWrites, AnsibleReads, ReadOf

LEMMA BroughtAreFlags == ASSUME NEW f PROVE Brings(f) \subseteq OrgFlags
  BY DEF Brings, OrgFlags

(* A flag implies permissions only.                                        *)
LEMMA ImpliedArePermissions == ASSUME NEW f PROVE Implied(f) \subseteq AllPermissions
<1>1. CASE f \in AnsibleWrites \ {"ansible:job:execute"}
  <2>1. ReadOf[f] \in AnsibleReads /\ "org:read-ansible" \in OrgPermissions
    BY <1>1 DEF AnsibleReads, OrgPermissions
  <2>2. Implied(f) = {"org:read-ansible", ReadOf[f]}
    BY <1>1, WritesAreFlags DEF Implied
  <2> QED BY <2>1, <2>2 DEF AllPermissions, AnsiblePermissions
<1>2. CASE f \notin AnsibleWrites \ {"ansible:job:execute"}
  BY <1>2, WritesAreFlags DEF Implied, AllPermissions, AnsiblePermissions, OrgPermissions,
     ProjectPermissionSet, WorkspacePermissionSet, VariableSetPermissions, WorkspaceReads
<1> QED BY <1>1, <1>2

LEMMA OrganizationAccessIsPermissions ==
    ASSUME NEW a \in SUBSET OrgFlags
    PROVE  getPermissionsFromOrganizationAccess(a) \subseteq AllPermissions
<1>1. OrgFlags \subseteq AllPermissions
  BY DEF OrgFlags, AllPermissions, AnsiblePermissions
<1> QED
  BY <1>1, ImpliedArePermissions DEF getPermissionsFromOrganizationAccess

LEMMA RowsGrantPermissions ==
    ASSUME NEW row
    PROVE  /\ getPermissionsFromProjectAccess(row) \subseteq AllPermissions
           /\ getPermissionsFromWorkspaceAccess(row) \subseteq AllPermissions
<1> DEFINE c == row.custom
<1>1. /\ CustomPermissions(c) \subseteq AllPermissions
      /\ CustomVariableSets(c) \subseteq AllPermissions
  BY DEF CustomPermissions, CustomVariableSets, AllPermissions, WorkspacePermissionSet,
     VariableSetPermissions
<1>2. ProjectLevelPermissions(row.access) \subseteq AllPermissions
  <2>1. AnsibleReads \subseteq AllPermissions
    BY DEF AllPermissions, AnsiblePermissions
  <2> QED BY <2>1 DEF ProjectLevelPermissions, AllPermissions, WorkspaceReads,
     ProjectPermissionSet, WorkspacePermissionSet, VariableSetPermissions
<1>3. WorkspaceLevelPermissions(row.access) \subseteq AllPermissions
  BY DEF WorkspaceLevelPermissions, AllPermissions, WorkspaceReads, WorkspacePermissionSet
<1> QED
  BY <1>1, <1>2, <1>3 DEF getPermissionsFromProjectAccess, getPermissionsFromWorkspaceAccess

-----------------------------------------------------------------------------
(* What teams are granted grows with the teams.                            *)

LEMMA LegsGrow ==
    ASSUME NEW S, NEW T, S \subseteq T, NEW p, NEW w
    PROVE  /\ OrganizationLeg(S) \subseteq OrganizationLeg(T)
           /\ ProjectLeg(S, p) \subseteq ProjectLeg(T, p)
           /\ WorkspaceLeg(S, w) \subseteq WorkspaceLeg(T, w)
           /\ memberOfOwnersTeam(S) => memberOfOwnersTeam(T)
<1> HIDE DEF getPermissionsFromOrganizationAccess
<1>1. OrganizationLeg(S) \subseteq OrganizationLeg(T)
  BY DEF OrganizationLeg
<1>2. ProjectLeg(S, p) \subseteq ProjectLeg(T, p)
  BY DEF ProjectLeg
<1>3. WorkspaceLeg(S, w) \subseteq WorkspaceLeg(T, w)
  BY DEF WorkspaceLeg
<1>4. memberOfOwnersTeam(S) => memberOfOwnersTeam(T)
  BY DEF memberOfOwnersTeam
<1> QED BY <1>1, <1>2, <1>3, <1>4

LEMMA LegsArePermissions ==
    ASSUME TypeOK, NEW T \in SUBSET Teams, NEW p, NEW w
    PROVE  /\ OrganizationLeg(T) \subseteq AllPermissions
           /\ permits(T, p, w) \subseteq AllPermissions
<1>1. OrganizationLeg(T) \subseteq AllPermissions
  BY OrganizationAccessIsPermissions DEF OrganizationLeg, TypeOK
<1>2. ProjectLeg(T, p) \subseteq AllPermissions
  BY RowsGrantPermissions DEF ProjectLeg
<1>3. WorkspaceLeg(T, w) \subseteq AllPermissions
  BY RowsGrantPermissions DEF WorkspaceLeg
<1> QED BY <1>1, <1>2, <1>3 DEF permits

LEMMA PermitsGrow ==
    ASSUME TypeOK, NEW T \in SUBSET Teams, NEW S \in SUBSET T, NEW p, NEW w
    PROVE  permits(S, p, w) \subseteq permits(T, p, w)
<1>1. CASE memberOfOwnersTeam(T)
  BY <1>1, LegsArePermissions DEF permits
<1>2. CASE ~memberOfOwnersTeam(T)
  <2>1. ~memberOfOwnersTeam(S)
    BY <1>2, LegsGrow
  <2> QED BY <1>2, <2>1, LegsGrow DEF permits
<1> QED BY <1>1, <1>2

LEMMA NoTeamNoGrant ==
    ASSUME NEW p, NEW w
    PROVE  /\ OrganizationLeg({}) = {} /\ permits({}, p, w) = {}
           /\ ~memberOfOwnersTeam({})
<1>1. OrganizationLeg({}) = {}
  BY DEF OrganizationLeg
<1>2. ProjectLeg({}, p) = {} /\ WorkspaceLeg({}, w) = {}
  BY DEF ProjectLeg, WorkspaceLeg
<1> QED BY <1>1, <1>2 DEF permits, memberOfOwnersTeam

-----------------------------------------------------------------------------
(* Every check and listing answers alike.                                  *)

(* The audience of a change request on a workspace are the teams of those   *)
(* who read or write it, in every state (AudienceIsReaders).               *)
LEMMA AudienceHolds == ASSUME TypeOK PROVE AudienceIsReaders
<1> SUFFICES ASSUME NEW w \in Workspaces, NEW u \in Users
             PROVE  Reaches(CheckWorkspace(Session(u), w)) <=>
                      \E t \in ListTeamsWithWorkspaceAccess(w) : u \in members[t]
  BY DEF AudienceIsReaders
<1> DEFINE p == ProjectOf[w]
           T == TeamsByUser(u, Org[p])
<1>1. CheckWorkspace(Session(u), w) = IF T # {} THEN permits(T, p, w) ELSE {}
  BY DEF CheckWorkspace, CheckResourcePermission, Session, NoSubject, inOrg, teamsOf,
     UserInOrgRepo
<1>2. permits(T, p, w) = IF memberOfOwnersTeam(T) THEN AllPermissions
        ELSE OrganizationLeg(T) \cup ProjectLeg(T, p) \cup WorkspaceLeg(T, w)
  BY DEF permits
<1>3. Reaches(AllPermissions)
  BY DEF Reaches, AllPermissions, WorkspacePermissionSet
<1> HIDE DEF p
<1>4. Reaches(CheckWorkspace(Session(u), w)) <=> \E t \in T : teamReachesWorkspace(t, w)
  <2>1. CASE memberOfOwnersTeam(T)
    BY <1>1, <1>2, <1>3, <2>1 DEF memberOfOwnersTeam, teamReachesWorkspace
  <2>2. CASE ~memberOfOwnersTeam(T)
    <3>1. Reaches(OrganizationLeg(T)) <=>
            \E t \in T : Reaches(getPermissionsFromOrganizationAccess(access[t]))
      BY DEF OrganizationLeg, Reaches
    <3>2. Reaches(ProjectLeg(T, p)) <=>
            \E t \in T : /\ <<t, p>> \in DOMAIN projectAccess
                         /\ Reaches(getPermissionsFromProjectAccess(projectAccess[<<t, p>>]))
      <4>1. Reaches(ProjectLeg(T, p)) <=>
              \E x \in DOMAIN projectAccess : /\ x[1] \in T /\ x[2] = p
                /\ Reaches(getPermissionsFromProjectAccess(projectAccess[x]))
        BY DEF ProjectLeg, Reaches
      <4>2. \A x \in DOMAIN projectAccess : x = <<x[1], x[2]>>
        BY DEF TypeOK
      <4> QED BY <4>1, <4>2
    <3>3. Reaches(WorkspaceLeg(T, w)) <=>
            \E t \in T : /\ <<t, w>> \in DOMAIN workspaceAccess
                         /\ Reaches(getPermissionsFromWorkspaceAccess(workspaceAccess[<<t, w>>]))
      <4>1. Reaches(WorkspaceLeg(T, w)) <=>
              \E x \in DOMAIN workspaceAccess : /\ x[1] \in T /\ x[2] = w
                /\ Reaches(getPermissionsFromWorkspaceAccess(workspaceAccess[x]))
        BY DEF WorkspaceLeg, Reaches
      <4>2. \A x \in DOMAIN workspaceAccess : x = <<x[1], x[2]>>
        BY DEF TypeOK
      <4> QED BY <4>1, <4>2
    <3>4. Reaches(CheckWorkspace(Session(u), w)) <=>
            \/ Reaches(OrganizationLeg(T)) \/ Reaches(ProjectLeg(T, p))
            \/ Reaches(WorkspaceLeg(T, w))
      <4>1. CASE T = {}
        BY <1>1, <4>1 DEF Reaches, OrganizationLeg, ProjectLeg, WorkspaceLeg
      <4>2. CASE T # {}
        BY <1>1, <1>2, <2>2, <4>2 DEF Reaches
      <4> QED BY <4>1, <4>2
    <3>5. \A t \in T : name[t] # "owners"
      BY <2>2 DEF memberOfOwnersTeam
    <3> QED BY <3>1, <3>2, <3>3, <3>4, <3>5 DEF teamReachesWorkspace, p
  <2> QED BY <2>1, <2>2
<1> QED BY <1>4 DEF ListTeamsWithWorkspaceAccess, TeamsByUser, p

(* The flags of a workspace response are the answers of the actions' checks *)
(* (FlagsAgree), in every state.                                           *)
LEMMA FlagsHold == FlagsAgree
<1> SUFFICES ASSUME NEW w \in Workspaces, NEW u \in Users
             PROVE  LET c == Session(u)
                        perms == CheckWorkspace(c, w)
                    IN  Flags(u, w) =
            [queueRun       |-> {"runs", "workspace:write"} \subseteq perms,
             updateVariable |-> {"variables", "workspace:write"} \subseteq perms,
             readSettings   |-> inOrg(c, Org[ProjectOf[w]]),
             update         |-> \/ "org:manage-workspaces" \in checkOrgPermission(c, Org[ProjectOf[w]])
                                \/ "workspace:write" \in perms,
             lock           |-> "workspace_locking" \in perms,
             forceUnlock    |-> CheckWorkspaceAdminPermission(c, w)]
  BY DEF FlagsAgree
<1> DEFINE p == ProjectOf[w]
           o == Org[p]
           T == TeamsByUser(u, o)
           c == Session(u)
           g == LoadWorkspaceGrants(u, o)
<1>1. CheckWorkspace(c, w) = IF T # {} THEN permits(T, p, w) ELSE {}
  BY DEF CheckWorkspace, CheckResourcePermission, Session, NoSubject, inOrg, teamsOf,
     UserInOrgRepo
<1>2. inOrg(c, o) <=> T # {}
  BY DEF Session, NoSubject, inOrg, UserInOrgRepo
<1>3. checkOrgPermission(c, o) = IF T = {} THEN {} ELSE IF memberOfOwnersTeam(T)
                                 THEN AllPermissions ELSE OrganizationLeg(T)
  BY DEF checkOrgPermission, Session, NoSubject, inOrg, teamsOf, UserInOrgRepo
<1>4. teamsOf(c, o) = T
  BY DEF Session, NoSubject, teamsOf
<1>5. {"runs", "workspace:write", "variables", "workspace_locking",
       "org:manage-workspaces"} \subseteq AllPermissions
  BY DEF AllPermissions, WorkspacePermissionSet, OrgPermissions
<1>6. g = [inOrg |-> T # {}, owner |-> memberOfOwnersTeam(T),
           teams |-> IF memberOfOwnersTeam(T) THEN {} ELSE T,
           orgPerms |-> IF memberOfOwnersTeam(T) THEN {} ELSE OrganizationLeg(T)]
  BY DEF LoadWorkspaceGrants
<1> HIDE DEF g, c, T, o
<1>7. ASSUME NEW perm \in {"runs", "workspace:write", "variables", "workspace_locking"}
      PROVE  Has(g, w, perm) <=> perm \in CheckWorkspace(c, w)
  <2>1. CASE memberOfOwnersTeam(T)
    <3>1. T # {} /\ g.inOrg /\ g.owner
      BY <1>6, <2>1, NoTeamNoGrant
    <3>2. CheckWorkspace(c, w) = AllPermissions
      BY <1>1, <2>1, <3>1 DEF permits
    <3> QED BY <1>5, <3>1, <3>2 DEF Has
  <2>2. CASE ~memberOfOwnersTeam(T)
    BY <1>1, <1>6, <2>2 DEF Has, permits
  <2> QED BY <2>1, <2>2
<1>8. ManagesWorkspaces(g) <=> "org:manage-workspaces" \in checkOrgPermission(c, o)
  BY <1>3, <1>5, <1>6 DEF ManagesWorkspaces
<1>9. IsWorkspaceAdmin(g, w) <=> CheckWorkspaceAdminPermission(c, w)
  <2>1. CheckWorkspaceAdminPermission(c, w) <=>
           \/ "org:manage-workspaces" \in checkOrgPermission(c, o)
           \/ HasRow(T, projectAccess, p, {"admin", "maintain"})
           \/ HasRow(T, workspaceAccess, w, {"admin"})
    BY <1>4 DEF CheckWorkspaceAdminPermission, c, o, Session, NoSubject
  <2>2. CASE memberOfOwnersTeam(T)
    BY <1>3, <1>5, <1>6, <1>8, <2>1, <2>2, NoTeamNoGrant DEF IsWorkspaceAdmin
  <2>3. CASE ~memberOfOwnersTeam(T)
    BY <1>6, <1>8, <2>1, <2>3 DEF IsWorkspaceAdmin
  <2> QED BY <2>2, <2>3
<1>10. g.inOrg <=> inOrg(c, o)
  BY <1>2, <1>6
<1>11. inOrg(c, o) \in BOOLEAN /\ g.inOrg \in BOOLEAN
  BY <1>6 DEF inOrg, c, Session, NoSubject, UserInOrgRepo
<1>12. Flags(u, w) =
         LET write == Has(g, w, "workspace:write")
         IN  [queueRun       |-> Has(g, w, "runs") /\ write,
              updateVariable |-> Has(g, w, "variables") /\ write,
              readSettings   |-> g.inOrg,
              update         |-> ManagesWorkspaces(g) \/ write,
              lock           |-> Has(g, w, "workspace_locking"),
              forceUnlock    |-> IsWorkspaceAdmin(g, w)]
  BY DEF Flags, g, o
<1>13. /\ (Has(g, w, "runs") /\ Has(g, w, "workspace:write"))
            = ({"runs", "workspace:write"} \subseteq CheckWorkspace(c, w))
       /\ (Has(g, w, "variables") /\ Has(g, w, "workspace:write"))
            = ({"variables", "workspace:write"} \subseteq CheckWorkspace(c, w))
       /\ (ManagesWorkspaces(g) \/ Has(g, w, "workspace:write"))
            = ("org:manage-workspaces" \in checkOrgPermission(c, o)
               \/ "workspace:write" \in CheckWorkspace(c, w))
  BY <1>7, <1>8
<1>14. Has(g, w, "workspace_locking") = ("workspace_locking" \in CheckWorkspace(c, w))
  <2>1. Has(g, w, "workspace_locking") \in BOOLEAN
    BY DEF Has
  <2> QED BY <1>7, <2>1
<1>15. IsWorkspaceAdmin(g, w) = CheckWorkspaceAdminPermission(c, w)
  BY <1>9 DEF IsWorkspaceAdmin, CheckWorkspaceAdminPermission
<1>16. g.inOrg = inOrg(c, o)
  BY <1>10, <1>11
<1> HIDE DEF p
<1>17. Flags(u, w) =
         [queueRun       |-> {"runs", "workspace:write"} \subseteq CheckWorkspace(c, w),
          updateVariable |-> {"variables", "workspace:write"} \subseteq CheckWorkspace(c, w),
          readSettings   |-> inOrg(c, o),
          update         |-> \/ "org:manage-workspaces" \in checkOrgPermission(c, o)
                             \/ "workspace:write" \in CheckWorkspace(c, w),
          lock           |-> "workspace_locking" \in CheckWorkspace(c, w),
          forceUnlock    |-> CheckWorkspaceAdminPermission(c, w)]
  BY <1>12, <1>13, <1>14, <1>15, <1>16, Zenon
<1> QED BY <1>17 DEF c, o, p

-----------------------------------------------------------------------------
(* Keys.                                                                   *)

LEMMA SubjectKinds ==
    ASSUME NEW k \in Key
    PROVE  LET s == SubjectForAPIKey(k)
           IN  \/ s = NoSubject /\ k.team = Nobody
               \/ /\ k.team = Nobody
                  /\ \E p, levels : s = ProjectSubject(k.org, p, levels)
               \/ /\ k.team = Nobody
                  /\ \E t \in Teams :
                       s = TeamSubject(k.org, t, k.owner \notin members[t])
               \/ k.team \in Teams /\ s = TeamSubject(k.org, k.team, FALSE)
<1>1. CASE k.team # Nobody
  BY <1>1 DEF SubjectForAPIKey, Key
<1>2. CASE k.team = Nobody /\ (Scopes(k, "org") # {} \/
                               (Scopes(k, "team") = {} /\ Scopes(k, "project") = {}))
  BY <1>2 DEF SubjectForAPIKey
<1>3. CASE k.team = Nobody /\ Scopes(k, "org") = {} /\ Scopes(k, "team") # {}
  <2>1. (CHOOSE s \in Scopes(k, "team") : TRUE) \in Scopes(k, "team")
    BY <1>3
  <2>2. \A s \in Scopes(k, "team") : s.id \in Teams
    BY DEF Scopes, Key, Scope
  <2> QED BY <1>3, <2>1, <2>2 DEF SubjectForAPIKey
<1>4. CASE /\ k.team = Nobody /\ Scopes(k, "org") = {} /\ Scopes(k, "team") = {}
           /\ Scopes(k, "project") # {}
  BY <1>4 DEF SubjectForAPIKey
<1> QED BY <1>1, <1>2, <1>3, <1>4

(* A team's subject is judged by its team alone, which must be there.       *)
LEMMA TeamIsJudged ==
    ASSUME NEW c, NEW o, NEW t, NEW d, c.subject = TeamSubject(o, t, d)
    PROVE  \A x : /\ inOrg(c, x) <=> o = x /\ ~d
                  /\ teamsOf(c, x) = IF o = x /\ ~d
                       THEN {y \in {t} : Exists(y) /\ Org[y] = x} ELSE {}
<1> SUFFICES ASSUME NEW x
             PROVE  /\ inOrg(c, x) <=> o = x /\ ~d
                    /\ teamsOf(c, x) = IF o = x /\ ~d
                         THEN {y \in {t} : Exists(y) /\ Org[y] = x} ELSE {}
  OBVIOUS
<1>1. c.subject.kind = "team" /\ c.subject.org = o /\ c.subject.team = t
      /\ c.subject.denied = d
  BY DEF TeamSubject
<1>2. inOrg(c, x) <=> o = x /\ ~d
  BY <1>1 DEF inOrg
<1> QED BY <1>1, <1>2 DEF teamsOf

(* A key holds no more than its owner, or a team token than its team        *)
(* (KeyWithinOwner), in every well-typed state.                            *)
LEMMA KeysHold == ASSUME TypeOK PROVE KeyWithinOwner
<1> SUFFICES ASSUME NEW k \in keys,
               NEW S, S = IF k.team = Nobody THEN TeamsByUser(k.owner, k.org)
                          ELSE {t \in {k.team} : Exists(t)}
             PROVE
               /\ \A o \in Orgs :
                    checkOrgPermission(KeyCaller(k), o) \subseteq
                      IF k.team = Nobody THEN checkOrgPermission(Session(k.owner), o)
                      ELSE IF memberOfOwnersTeam(S) THEN AllPermissions
                      ELSE OrganizationLeg(S)
               /\ \A w \in Workspaces :
                    CheckWorkspace(KeyCaller(k), w) \subseteq
                      IF k.team = Nobody THEN CheckWorkspace(Session(k.owner), w)
                      ELSE permits(S, ProjectOf[w], w)
  BY DEF KeyWithinOwner
<1> DEFINE c == KeyCaller(k)
           owner == Session(k.owner)
<1>0. /\ c.user = k.owner /\ c.subject = SubjectForAPIKey(k)
      /\ owner.user = k.owner /\ owner.subject = NoSubject
  BY DEF KeyCaller, Session
<1>1. CASE c.subject = NoSubject /\ k.team = Nobody
  <2>1. c = owner
    BY <1>0, <1>1 DEF KeyCaller, Session
  <2> QED BY <1>1, <2>1
<1>2. CASE /\ k.team = Nobody
           /\ \E p, levels : c.subject = ProjectSubject(k.org, p, levels)
  <2>1. c.subject.kind = "project"
    BY <1>2 DEF ProjectSubject
  <2>2. \A o : checkOrgPermission(c, o) = {}
    BY <2>1 DEF checkOrgPermission
  <2>3. ASSUME NEW p, NEW w
        PROVE  CheckResourcePermission(c, p, w) \subseteq CheckResourcePermission(owner, p, w)
    <3>1. owner.subject.kind # "project"
      BY <1>0 DEF NoSubject
    <3>2. CheckResourcePermission(c, p, w) = projectScopeAllows(c.subject, p) \cap
             (IF inOrg(owner, Org[p]) THEN permits(teamsOf(owner, Org[p]), p, w) ELSE {})
      BY <1>0, <2>1 DEF CheckResourcePermission
    <3>3. CheckResourcePermission(owner, p, w) =
             IF inOrg(owner, Org[p]) THEN permits(teamsOf(owner, Org[p]), p, w) ELSE {}
      BY <3>1 DEF CheckResourcePermission
    <3> QED BY <3>2, <3>3
  <2> QED BY <1>2, <2>2, <2>3 DEF CheckWorkspace
<1>3. CASE \E t \in Teams, d \in BOOLEAN :
              /\ c.subject = TeamSubject(k.org, t, d)
              /\ \/ k.team = Nobody /\ d = (k.owner \notin members[t])
                 \/ k.team = t /\ d = FALSE
  <2> PICK t \in Teams, d \in BOOLEAN :
              /\ c.subject = TeamSubject(k.org, t, d)
              /\ \/ k.team = Nobody /\ d = (k.owner \notin members[t])
                 \/ k.team = t /\ d = FALSE
    BY <1>3
  <2> HIDE DEF c, owner
  <2>1. ASSUME NEW o PROVE
          /\ inOrg(c, o) <=> k.org = o /\ ~d
          /\ teamsOf(c, o) = IF k.org = o /\ ~d
                             THEN {y \in {t} : Exists(y) /\ Org[y] = o} ELSE {}
    BY TeamIsJudged
  <2>2. ASSUME NEW o PROVE
          /\ inOrg(owner, o) <=> TeamsByUser(k.owner, o) # {}
          /\ teamsOf(owner, o) = TeamsByUser(k.owner, o)
    BY <1>0 DEF inOrg, teamsOf, UserInOrgRepo, NoSubject
  <2>3. c.subject.kind # "project" /\ owner.subject.kind # "project"
    BY <1>0 DEF TeamSubject, NoSubject
  <2>4. teamsOf(c, k.org) \subseteq S
    <3>1. Nobody \notin Teams
      BY ConstantsAssumption
    <3>2. CASE k.team = Nobody
      BY <2>1, <3>1, <3>2 DEF TeamsByUser
    <3>3. CASE k.team # Nobody
      BY <2>1, <3>3
    <3> QED BY <3>2, <3>3
  <2>5. S \in SUBSET Teams
    BY DEF TeamsByUser
  <2>6. k.team = Nobody => owner.subject.kind # "project" /\ S = teamsOf(owner, k.org)
    BY <2>2, <2>3
  <2>7. ASSUME NEW o \in Orgs
        PROVE  checkOrgPermission(c, o) \subseteq
                 IF k.team = Nobody THEN checkOrgPermission(owner, o)
                 ELSE IF memberOfOwnersTeam(S) THEN AllPermissions
                 ELSE OrganizationLeg(S)
    <3> DEFINE held(T) == IF memberOfOwnersTeam(T) THEN AllPermissions
                          ELSE OrganizationLeg(T)
    <3>1. CASE ~inOrg(c, o)
      BY <3>1 DEF checkOrgPermission
    <3>2. CASE inOrg(c, o)
      <4>1. o = k.org
        BY <2>1, <3>2
      <4>2. checkOrgPermission(c, o) = held(teamsOf(c, o))
        BY <2>3, <3>2 DEF checkOrgPermission
      <4>3. held(teamsOf(c, o)) \subseteq held(S)
        <5>1. OrganizationLeg(teamsOf(c, o)) \subseteq OrganizationLeg(S)
              /\ (memberOfOwnersTeam(teamsOf(c, o)) => memberOfOwnersTeam(S))
          BY <2>4, <4>1, LegsGrow
        <5>2. OrganizationLeg(S) \subseteq AllPermissions
          BY <2>5, LegsArePermissions
        <5> QED BY <5>1, <5>2
      <4>4. k.team = Nobody => checkOrgPermission(owner, o) = held(S)
        <5>1. held({}) = {}
          BY NoTeamNoGrant
        <5>2. k.team = Nobody => checkOrgPermission(owner, o) = IF S = {} THEN {} ELSE held(S)
          BY <2>2, <2>6, <4>1 DEF checkOrgPermission
        <5> QED BY <5>1, <5>2
      <4> QED BY <4>2, <4>3, <4>4
    <3> QED BY <3>1, <3>2
  <2>8. ASSUME NEW w \in Workspaces
        PROVE  CheckWorkspace(c, w) \subseteq
                 IF k.team = Nobody THEN CheckWorkspace(owner, w)
                 ELSE permits(S, ProjectOf[w], w)
    <3> DEFINE p == ProjectOf[w]
               o == Org[p]
    <3>1. /\ CheckWorkspace(c, w) = IF inOrg(c, o) THEN permits(teamsOf(c, o), p, w) ELSE {}
          /\ CheckWorkspace(owner, w) =
               IF inOrg(owner, o) THEN permits(teamsOf(owner, o), p, w) ELSE {}
      BY <2>3 DEF CheckWorkspace, CheckResourcePermission
    <3> HIDE DEF p, o
    <3>2. CASE ~inOrg(c, o)
      BY <3>1, <3>2
    <3>3. CASE inOrg(c, o)
      <4>1. o = k.org
        BY <2>1, <3>3
      <4>2. permits(teamsOf(c, o), p, w) \subseteq permits(S, p, w)
        BY <2>4, <2>5, <4>1, PermitsGrow
      <4>3. k.team = Nobody => CheckWorkspace(owner, w) = permits(S, p, w)
        BY <2>2, <2>6, <3>1, <4>1, NoTeamNoGrant
      <4> QED BY <3>1, <3>3, <4>2, <4>3 DEF p
    <3> QED BY <3>2, <3>3
  <2> QED BY <2>7, <2>8 DEF c, owner
<1>4. k \in Key
  BY DEF TypeOK
<1>5. \/ c.subject = NoSubject /\ k.team = Nobody
      \/ k.team = Nobody /\ \E p, levels : c.subject = ProjectSubject(k.org, p, levels)
      \/ \E t \in Teams, d \in BOOLEAN :
              /\ c.subject = TeamSubject(k.org, t, d)
              /\ \/ k.team = Nobody /\ d = (k.owner \notin members[t])
                 \/ k.team = t /\ d = FALSE
  BY <1>0, <1>4, SubjectKinds
<1> HIDE DEF c
<1> QED BY <1>1, <1>2, <1>3, <1>5

-----------------------------------------------------------------------------
(* Roll-ups.                                                               *)

(* What the flags that read a whole organization imply of its resources.    *)
LEMMA ReadersRead ==
    ASSUME NEW T
    PROVE  /\ "org:read-workspaces" \in OrganizationLeg(T) =>
                "workspace:read" \in OrganizationLeg(T)
           /\ "org:read-projects" \in OrganizationLeg(T) =>
                "project:read" \in OrganizationLeg(T)
<1>1. ASSUME NEW a, "org:read-workspaces" \in getPermissionsFromOrganizationAccess(a)
      PROVE  "workspace:read" \in getPermissionsFromOrganizationAccess(a)
  <2>1. "org:read-workspaces" \in a \/ "org:manage-workspaces" \in a
    <3>1. ASSUME NEW f, "org:read-workspaces" \in Implied(f)
          PROVE  f = "org:manage-workspaces"
      <4>1. CASE f \in AnsibleWrites \ {"ansible:job:execute"}
        <5>1. Implied(f) = {"org:read-ansible", ReadOf[f]} /\ ReadOf[f] \in AnsibleReads
          BY <4>1, WritesAreFlags DEF Implied, AnsibleReads
        <5> QED BY <3>1, <5>1, WritesAreFlags
      <4>2. CASE f \notin AnsibleWrites \ {"ansible:job:execute"}
        BY <3>1, <4>2, WritesAreFlags DEF Implied, WorkspaceReads, VariableSetPermissions,
           AnsiblePermissions
      <4> QED BY <4>1, <4>2
    <3> QED BY <1>1, <3>1 DEF getPermissionsFromOrganizationAccess
  <2>2. /\ "workspace:read" \in Implied("org:read-workspaces")
        /\ "workspace:read" \in Implied("org:manage-workspaces")
    BY WritesAreFlags DEF Implied, WorkspaceReads, WorkspacePermissionSet
  <2> QED BY <2>1, <2>2 DEF getPermissionsFromOrganizationAccess
<1>2. ASSUME NEW a, "org:read-projects" \in getPermissionsFromOrganizationAccess(a)
      PROVE  "project:read" \in getPermissionsFromOrganizationAccess(a)
  <2>1. "org:read-projects" \in a \/ "org:manage-projects" \in a
    <3>1. ASSUME NEW f, "org:read-projects" \in Implied(f)
          PROVE  f = "org:manage-projects"
      <4>1. CASE f \in AnsibleWrites \ {"ansible:job:execute"}
        <5>1. Implied(f) = {"org:read-ansible", ReadOf[f]} /\ ReadOf[f] \in AnsibleReads
          BY <4>1, WritesAreFlags DEF Implied, AnsibleReads
        <5> QED BY <3>1, <5>1, WritesAreFlags
      <4>2. CASE f \notin AnsibleWrites \ {"ansible:job:execute"}
        BY <3>1, <4>2, WritesAreFlags DEF Implied, WorkspaceReads, VariableSetPermissions,
           AnsiblePermissions, WorkspacePermissionSet
      <4> QED BY <4>1, <4>2
    <3> QED BY <1>2, <3>1 DEF getPermissionsFromOrganizationAccess
  <2>2. /\ "project:read" \in Implied("org:read-projects")
        /\ "project:read" \in Implied("org:manage-projects")
    BY WritesAreFlags DEF Implied
  <2> QED BY <2>1, <2>2 DEF getPermissionsFromOrganizationAccess
<1> QED BY <1>1, <1>2 DEF OrganizationLeg

(* Whoever reads a whole organization is refused none of it                 *)
(* (WholeOrganizationReads), in every state.                               *)
LEMMA WholeReadsHold == WholeOrganizationReads
<1> SUFFICES ASSUME NEW c \in Callers, NEW o \in Orgs,
                    ReadsWholeOrganization(OrgPermissionsForOrganizations(c, o))
             PROVE
        /\ AddDashboardScope(c, o) =
             [workspaces |-> WorkspacesIn(o), projects |-> ProjectsIn(o),
              ansible |-> [kind \in DashboardReads |-> ProjectsIn(o)]]
        /\ "org:read-ansible" \in checkOrgPermission(c, o)
        /\ \A w \in WorkspacesIn(o) : "workspace:read" \in CheckWorkspace(c, w)
  BY DEF WholeOrganizationReads
<1> DEFINE T == teamsOf(c, o)
           R == {"org:read-workspaces", "org:read-projects", "org:read-ansible"}
                \cup DashboardReads
<1>1. R \subseteq OrgPermissionsForOrganizations(c, o)
  BY DEF ReadsWholeOrganization, DashboardReads
<1>2. c.subject.kind = "none" \/ c.subject.kind = "team"
  <2>1. CASE c.subject.kind = "project"
    <3>1. OrgPermissionsForOrganizations(c, o) =
            IF memberOfOwnersTeam({}) THEN ownerPermissions
            ELSE OrganizationLeg({t \in {} : name[t] # "owners"})
      BY <2>1 DEF OrgPermissionsForOrganizations
    <3>2. {t \in {} : name[t] # "owners"} = {}
      OBVIOUS
    <3>3. OrgPermissionsForOrganizations(c, o) = {}
      BY <3>1, <3>2, NoTeamNoGrant
    <3> QED BY <1>1, <3>3
  <2>2. c.subject.kind \in {"none", "team", "project"}
    <3>1. CASE \E u \in Users : c = Session(u)
      BY <3>1 DEF Session, NoSubject
    <3>2. CASE \E k \in keys : c = KeyCaller(k)
      BY <3>2 DEF KeyCaller, SubjectForAPIKey, NoSubject, TeamSubject, ProjectSubject
    <3> QED BY <3>1, <3>2 DEF Callers
  <2> QED BY <2>1, <2>2
<1>3. T # {} /\ (memberOfOwnersTeam(T) \/ R \subseteq OrganizationLeg(T))
  <2>1. CASE c.subject.kind = "none"
    <3>1. T = TeamsByUser(c.user, o)
      BY <2>1 DEF teamsOf
    <3>2. OrgPermissionsForOrganizations(c, o) =
            IF memberOfOwnersTeam(T) THEN ownerPermissions
            ELSE OrganizationLeg({t \in T : name[t] # "owners"})
      BY <2>1, <3>1 DEF OrgPermissionsForOrganizations
    <3>3. OrganizationLeg({t \in T : name[t] # "owners"}) \subseteq OrganizationLeg(T)
      BY LegsGrow
    <3> QED BY <1>1, <3>2, <3>3, NoTeamNoGrant
  <2>2. CASE c.subject.kind = "team"
    <3> DEFINE U == IF c.subject.org = o THEN T ELSE {}
    <3>1. OrgPermissionsForOrganizations(c, o) =
            IF memberOfOwnersTeam(U) THEN ownerPermissions
            ELSE OrganizationLeg({t \in U : name[t] # "owners"})
      BY <2>2 DEF OrgPermissionsForOrganizations
    <3>2. OrganizationLeg({t \in U : name[t] # "owners"}) \subseteq OrganizationLeg(U)
      BY LegsGrow
    <3> HIDE DEF T
    <3>3. U # {} /\ (memberOfOwnersTeam(U) \/ R \subseteq OrganizationLeg(U))
      BY <1>1, <3>1, <3>2, NoTeamNoGrant
    <3> QED BY <3>3
  <2> QED BY <1>2, <2>1, <2>2
<1>4. inOrg(c, o)
  <2>1. CASE c.subject.kind = "none"
    BY <1>3, <2>1 DEF inOrg, teamsOf, UserInOrgRepo
  <2>2. CASE c.subject.kind = "team"
    BY <1>3, <2>2 DEF teamsOf
  <2> QED BY <1>2, <2>1, <2>2
<1> DEFINE read == {"workspace:read", "project:read", "org:read-ansible"} \cup DashboardReads
<1>5. memberOfOwnersTeam(T) \/ read \subseteq OrganizationLeg(T)
  BY <1>3, ReadersRead
<1>6. read \subseteq AllPermissions
  BY WritesAreFlags DEF DashboardReads, AllPermissions, WorkspacePermissionSet,
     ProjectPermissionSet, OrgPermissions, AnsiblePermissions
<1> HIDE DEF T, read
<1>7. ASSUME NEW p, NEW w PROVE read \subseteq permits(T, p, w)
  BY <1>5, <1>6 DEF permits
<1>8. ASSUME NEW p, NEW w PROVE read \subseteq readable(c, o, p, w)
  <2>1. readable(c, o, p, w) = AllPermissions \cap permits(T, p, w)
    BY <1>2, <1>4 DEF readable, T
  <2> QED BY <1>6, <1>7, <2>1
<1>9. AddDashboardScope(c, o) =
             [workspaces |-> WorkspacesIn(o), projects |-> ProjectsIn(o),
              ansible |-> [kind \in DashboardReads |-> ProjectsIn(o)]]
  <2>1. \A p, w : /\ "workspace:read" \in readable(c, o, p, w)
                  /\ "project:read" \in readable(c, o, p, w)
                  /\ \A kind \in DashboardReads : kind \in readable(c, o, p, w)
    BY <1>8 DEF read
  <2>2. {w \in WorkspacesIn(o) : "workspace:read" \in readable(c, o, ProjectOf[w], w)}
          = WorkspacesIn(o)
    BY <2>1
  <2>3. {p \in ProjectsIn(o) : "project:read" \in readable(c, o, p, Nobody)} = ProjectsIn(o)
    BY <2>1
  <2>4. \A kind \in DashboardReads :
          {p \in ProjectsIn(o) : kind \in readable(c, o, p, Nobody)} = ProjectsIn(o)
    BY <2>1
  <2>5. [kind \in DashboardReads |-> {p \in ProjectsIn(o) : kind \in readable(c, o, p, Nobody)}]
          = [kind \in DashboardReads |-> ProjectsIn(o)]
    BY <2>4
  <2> HIDE DEF read
  <2> QED BY <2>2, <2>3, <2>5 DEF AddDashboardScope
<1>10. "org:read-ansible" \in checkOrgPermission(c, o)
  BY <1>2, <1>4, <1>5, <1>6 DEF checkOrgPermission, T, read
<1>11. ASSUME NEW w \in WorkspacesIn(o) PROVE "workspace:read" \in CheckWorkspace(c, w)
  <2>1. Org[ProjectOf[w]] = o
    BY DEF WorkspacesIn
  <2>2. CheckWorkspace(c, w) = permits(T, ProjectOf[w], w)
    BY <1>2, <1>4, <2>1 DEF CheckWorkspace, CheckResourcePermission, T
  <2> QED BY <1>7, <2>2 DEF read
<1> QED BY <1>9, <1>10, <1>11

-----------------------------------------------------------------------------
(* Types.                                                                  *)

LEMMA ToggleType ==
    ASSUME NEW a \in SUBSET OrgFlags, NEW q \in [on: SUBSET OrgFlags, off: SUBSET OrgFlags],
           NEW stage
    PROVE  Toggle(a, q, stage) \in SUBSET OrgFlags
  BY BroughtAreFlags DEF Toggle

LEMMA RequestedAccessType ==
    ASSUME NEW a \in SUBSET OrgFlags, NEW q \in AccessRequests
    PROVE  updateOrganizationAccessFromRequest(a, q) \in SUBSET OrgFlags
<1>1. q \in [on: SUBSET OrgFlags, off: SUBSET OrgFlags]
  BY ConstantsAssumption
<1>2. \A b \in SUBSET OrgFlags : \A stage : Toggle(b, q, stage) \in SUBSET OrgFlags
  BY <1>1, ToggleType
<1> QED
  BY <1>2, Zenon DEF updateOrganizationAccessFromRequest

LEMMA RowType ==
    ASSUME NEW old \in Custom, NEW q \in RowRequests
    PROVE  /\ q.access \in ProjectLevels => ProjectRow(old, q) \in Row
           /\ q.access \in WorkspaceLevels \cup {"custom"} => WorkspaceRow(old, q) \in Row
<1>0. q.access \in ProjectLevels \cup WorkspaceLevels
  BY ConstantsAssumption
<1>1. NoCustom \in Custom
  BY DEF NoCustom, Custom, CustomLevels
<1>2. q.access = "custom" \/ q.access = "none" => Merged(old, q.custom) \in Custom
  BY ConstantsAssumption DEF Merged, Custom
<1> QED
  BY <1>1, <1>2 DEF ProjectRow, WorkspaceRow, Row, ProjectLevels, WorkspaceLevels

LEMMA InitTypes == Init => TypeOK
  BY ConstantsAssumption DEF Init, TypeOK

LEMMA CreateOrganizationTypes ==
    ASSUME TypeOK, NEW u \in Users, NEW o \in Orgs, CreateOrganization(u, o), changes' = changes
    PROVE  TypeOK'
<1> DEFINE owners == OwnersTeam[o]
           viewers == ViewersTeam[o]
<1>1. owners \in Teams /\ viewers \in Teams /\ DefaultProject[o] \in Projects
  BY ConstantsAssumption
<1>2. name' \in [Teams -> Names \cup {"unmade", "gone"}]
  BY <1>1, ConstantsAssumption DEF TypeOK, CreateOrganization
<1>3. access' \in [Teams -> SUBSET OrgFlags]
  <2>1. OwnersAccess \in SUBSET OrgFlags
        /\ {"org:read-workspaces", "org:read-projects"} \in SUBSET OrgFlags
    BY DEF OwnersAccess, OrgFlags, OrgPermissions
  <2> QED BY <1>1, <2>1 DEF TypeOK, CreateOrganization
<1>4. members' \in [Teams -> SUBSET Users] /\ orgMembers' \subseteq Users \X Orgs
  BY <1>1 DEF TypeOK, CreateOrganization
<1>5. /\ DOMAIN projectAccess' \subseteq Teams \X Projects
      /\ \A tp \in DOMAIN projectAccess' : projectAccess'[tp] \in Row
  <2>1. [access |-> "admin", custom |-> NoCustom] \in Row
    BY DEF Row, ProjectLevels, NoCustom, Custom, CustomLevels
  <2> QED BY <1>1, <2>1 DEF TypeOK, CreateOrganization
<1> QED BY <1>2, <1>3, <1>4, <1>5 DEF TypeOK, CreateOrganization, keyVars

LEMMA TeamTypes ==
    ASSUME TypeOK, TeamStep, changes' \in Nat
    PROVE  TypeOK'
<1> PICK c \in Callers, t \in Teams :
      \/ \E n \in Names, g \in Groups \cup {Nobody}, q \in AccessRequests :
           CreateTeam(c, t, n, g, q)
      \/ \E n \in Names, g \in Groups \cup {Nobody}, q \in AccessRequests \cup {Nobody} :
           UpdateTeam(c, t, n, g, q)
      \/ DeleteTeam(c, t)
      \/ RegenerateTeamToken(c, t)
      \/ DeleteTeamToken(c, t)
  BY DEF TeamStep
<1>1. ASSUME NEW n \in Names, NEW g \in Groups \cup {Nobody}, NEW q \in AccessRequests,
             CreateTeam(c, t, n, g, q)
      PROVE  TypeOK'
  <2>1. access' \in [Teams -> SUBSET OrgFlags]
    BY <1>1, RequestedAccessType DEF CreateTeam, TypeOK
  <2>2. /\ name' \in [Teams -> Names \cup {"unmade", "gone"}]
        /\ sso' \in [Teams -> Groups \cup {Nobody}]
    BY <1>1 DEF CreateTeam, TypeOK
  <2> QED BY <1>1, <2>1, <2>2 DEF CreateTeam, TypeOK, rowVars, keyVars
<1>2. ASSUME NEW n \in Names, NEW g \in Groups \cup {Nobody},
             NEW q \in AccessRequests \cup {Nobody}, UpdateTeam(c, t, n, g, q)
      PROVE  TypeOK'
  <2>1. access' \in [Teams -> SUBSET OrgFlags]
    <3>1. CASE q = Nobody
      BY <1>2, <3>1 DEF UpdateTeam, TypeOK
    <3>2. CASE q # Nobody
      BY <1>2, <3>2, RequestedAccessType DEF UpdateTeam, TypeOK
    <3> QED BY <3>1, <3>2
  <2>2. /\ name' \in [Teams -> Names \cup {"unmade", "gone"}]
        /\ sso' \in [Teams -> Groups \cup {Nobody}]
    BY <1>2 DEF UpdateTeam, TypeOK
  <2> QED BY <1>2, <2>1, <2>2 DEF UpdateTeam, TypeOK, rowVars, keyVars
<1>3. ASSUME DeleteTeam(c, t) PROVE TypeOK'
  <2>1. /\ name' \in [Teams -> Names \cup {"unmade", "gone"}]
        /\ sso' \in [Teams -> Groups \cup {Nobody}]
        /\ access' \in [Teams -> SUBSET OrgFlags]
        /\ members' \in [Teams -> SUBSET Users]
    BY <1>3 DEF DeleteTeam, TypeOK
  <2>2. /\ DOMAIN projectAccess' \subseteq Teams \X Projects
        /\ \A tp \in DOMAIN projectAccess' : projectAccess'[tp] \in Row
    BY <1>3 DEF DeleteTeam, TypeOK
  <2>3. /\ DOMAIN workspaceAccess' \subseteq Teams \X Workspaces
        /\ \A tw \in DOMAIN workspaceAccess' : workspaceAccess'[tw] \in Row
    BY <1>3 DEF DeleteTeam, TypeOK
  <2> QED BY <1>3, <2>1, <2>2, <2>3 DEF DeleteTeam, TypeOK, keyVars
<1>4. ASSUME RegenerateTeamToken(c, t) PROVE TypeOK'
  <2>1. c.user \in Users
    BY DEF Callers, Session, KeyCaller, TypeOK, Key
  <2>2. keys' \subseteq Key /\ minting' \subseteq [team: Teams, owner: Users]
    BY <1>4, <2>1 DEF RegenerateTeamToken, TypeOK
  <2> QED BY <1>4, <2>2 DEF RegenerateTeamToken, TypeOK, teamVars, rowVars
<1>5. ASSUME DeleteTeamToken(c, t) PROVE TypeOK'
  <2>1. keys' \subseteq Key
    BY <1>5 DEF DeleteTeamToken, TypeOK
  <2> QED BY <1>5, <2>1 DEF DeleteTeamToken, TypeOK, teamVars, rowVars
<1> QED BY <1>1, <1>2, <1>3, <1>4, <1>5

LEMMA RowTypes ==
    ASSUME TypeOK, RowStep, changes' \in Nat
    PROVE  TypeOK'
<1> PICK c \in Callers, t \in Teams :
      \/ \E p \in Projects :
           \/ DeleteProjectAccess(c, t, p)
           \/ \E q \in RowRequests : CreateProjectAccess(c, t, p, q)
                                     \/ UpdateProjectAccess(c, t, p, q)
      \/ \E w \in Workspaces :
           \/ DeleteWorkspaceAccess(c, t, w)
           \/ \E q \in RowRequests : CreateWorkspaceAccess(c, t, w, q)
                                     \/ UpdateWorkspaceAccess(c, t, w, q)
  BY DEF RowStep
<1>0. NoCustom \in Custom
  BY DEF NoCustom, Custom, CustomLevels
<1>a. ASSUME NEW x \in DOMAIN projectAccess PROVE projectAccess[x].custom \in Custom
  BY DEF TypeOK, Row
<1>b. ASSUME NEW x \in DOMAIN workspaceAccess PROVE workspaceAccess[x].custom \in Custom
  BY DEF TypeOK, Row
<1>1. ASSUME NEW p \in Projects,
             \/ DeleteProjectAccess(c, t, p)
             \/ \E q \in RowRequests : CreateProjectAccess(c, t, p, q)
                                       \/ UpdateProjectAccess(c, t, p, q)
      PROVE  TypeOK'
  <2> DEFINE Rows == /\ DOMAIN projectAccess' \subseteq Teams \X Projects
                     /\ \A tp \in DOMAIN projectAccess' : projectAccess'[tp] \in Row
  <2>1. Rows
    <3>1. CASE DeleteProjectAccess(c, t, p)
      BY <3>1 DEF DeleteProjectAccess, TypeOK
    <3>2. ASSUME NEW q \in RowRequests, CreateProjectAccess(c, t, p, q) PROVE Rows
      <4>1. ProjectRow(NoCustom, q) \in Row
        BY <1>0, <3>2, RowType DEF CreateProjectAccess
      <4> QED BY <3>2, <4>1 DEF CreateProjectAccess, TypeOK
    <3>3. ASSUME NEW q \in RowRequests, UpdateProjectAccess(c, t, p, q) PROVE Rows
      <4>1. ProjectRow(projectAccess[<<t, p>>].custom, q) \in Row
        BY <1>a, <3>3, RowType DEF UpdateProjectAccess
      <4> QED BY <3>3, <4>1 DEF UpdateProjectAccess, TypeOK
    <3> QED BY <1>1, <3>1, <3>2, <3>3
  <2> QED BY <1>1, <2>1 DEF DeleteProjectAccess, CreateProjectAccess, UpdateProjectAccess,
             TypeOK, teamVars, keyVars
<1>2. ASSUME NEW w \in Workspaces,
             \/ DeleteWorkspaceAccess(c, t, w)
             \/ \E q \in RowRequests : CreateWorkspaceAccess(c, t, w, q)
                                       \/ UpdateWorkspaceAccess(c, t, w, q)
      PROVE  TypeOK'
  <2> DEFINE Rows == /\ DOMAIN workspaceAccess' \subseteq Teams \X Workspaces
                     /\ \A tw \in DOMAIN workspaceAccess' : workspaceAccess'[tw] \in Row
  <2>1. Rows
    <3>1. CASE DeleteWorkspaceAccess(c, t, w)
      BY <3>1 DEF DeleteWorkspaceAccess, TypeOK
    <3>2. ASSUME NEW q \in RowRequests, CreateWorkspaceAccess(c, t, w, q) PROVE Rows
      <4>1. WorkspaceRow(NoCustom, q) \in Row
        BY <1>0, <3>2, RowType DEF CreateWorkspaceAccess
      <4> QED BY <3>2, <4>1 DEF CreateWorkspaceAccess, TypeOK
    <3>3. ASSUME NEW q \in RowRequests, UpdateWorkspaceAccess(c, t, w, q) PROVE Rows
      <4>1. WorkspaceRow(workspaceAccess[<<t, w>>].custom, q) \in Row
        BY <1>b, <3>3, RowType DEF UpdateWorkspaceAccess
      <4> QED BY <3>3, <4>1 DEF UpdateWorkspaceAccess, TypeOK
    <3> QED BY <1>2, <3>1, <3>2, <3>3
  <2> QED BY <1>2, <2>1 DEF DeleteWorkspaceAccess, CreateWorkspaceAccess, UpdateWorkspaceAccess,
             TypeOK, teamVars, keyVars
<1> QED BY <1>1, <1>2

LEMMA MemberTypes ==
    ASSUME TypeOK, MemberStep, changes' \in Nat
    PROVE  TypeOK'
<1>0. \A t \in Teams : Org[t] \in Orgs
  BY ConstantsAssumption
<1> DEFINE Members == /\ members' \in [Teams -> SUBSET Users]
                      /\ orgMembers' \subseteq Users \X Orgs
<1>1. Members
  <2>1. ASSUME NEW c, NEW u \in Users, NEW t \in Teams, AddUsers(c, t, u) \/ RemoveUsers(c, t, u)
        PROVE  Members
    BY <2>1 DEF AddUsers, RemoveUsers, TypeOK
  <2>2. ASSUME NEW c, NEW u \in Users, NEW o \in Orgs,
               CreateMembership(c, u, o) \/ DeleteMembership(c, u, o)
        PROVE  Members
    BY <2>2 DEF CreateMembership, DeleteMembership, TypeOK
  <2>3. ASSUME NEW u \in Users, NEW groups, SyncUserTeams(u, groups) PROVE Members
    BY <1>0, <2>3 DEF SyncUserTeams, TypeOK
  <2> QED BY <2>1, <2>2, <2>3 DEF MemberStep
<1>2. UNCHANGED <<teamVars, rowVars, keyVars>>
  BY DEF MemberStep, AddUsers, RemoveUsers, CreateMembership, DeleteMembership, SyncUserTeams
<1> QED BY <1>1, <1>2 DEF TypeOK, teamVars, rowVars, keyVars

LEMMA KeyTypes ==
    ASSUME TypeOK, KeyStep \/ StoreStep, changes' \in Nat
    PROVE  TypeOK'
<1> DEFINE KeysTyped == keys' \subseteq Key /\ minting' \subseteq [team: Teams, owner: Users]
<1>1. KeysTyped
  <2>1. ASSUME NEW u \in Users, NEW id \in Keys, NEW scopes \in ScopeRequests,
               CreateAPIKey(u, id, scopes)
        PROVE  KeysTyped
    <3>1. scopes \in SUBSET Scope
      BY ConstantsAssumption
    <3>2. \A o \in Orgs : [id |-> id, owner |-> u, org |-> o, scopes |-> scopes,
                           team |-> Nobody] \in Key
      BY <3>1 DEF Key
    <3> QED BY <2>1, <3>2 DEF CreateAPIKey, TypeOK
  <2>2. ASSUME NEW u \in Users, NEW k \in keys, DeleteAPIKey(u, k) PROVE KeysTyped
    BY <2>2 DEF DeleteAPIKey, TypeOK
  <2>3. ASSUME NEW m \in minting, NEW id \in Keys, StoreTeamToken(m, id) PROVE KeysTyped
    <3>1. m.team \in Teams /\ m.owner \in Users
      BY DEF TypeOK
    <3>2. Org[m.team] \in Orgs
      BY <3>1, ConstantsAssumption
    <3>3. {[type |-> "team", id |-> m.team, level |-> "admin"]} \in SUBSET Scope
      BY <3>1 DEF Scope, ScopeLevels
    <3>4. [id |-> id, owner |-> m.owner, org |-> Org[m.team], team |-> m.team,
           scopes |-> {[type |-> "team", id |-> m.team, level |-> "admin"]}] \in Key
      BY <3>1, <3>2, <3>3 DEF Key
    <3> QED BY <2>3, <3>4 DEF StoreTeamToken, TypeOK
  <2> QED BY <2>1, <2>2, <2>3 DEF KeyStep, StoreStep
<1>2. UNCHANGED <<teamVars, members, orgMembers, rowVars>>
  BY DEF KeyStep, StoreStep, CreateAPIKey, DeleteAPIKey, StoreTeamToken
<1> QED BY <1>1, <1>2 DEF TypeOK, teamVars, rowVars

(* The state has its type, for any users, organizations and requests.       *)
THEOREM Access_TypeCorrect == Spec => []TypeOK
<1>1. TypeOK /\ [Next]_vars => TypeOK'
  <2>1. CASE UNCHANGED vars
    BY <2>1 DEF TypeOK, vars
  <2>2. CASE Next
    <3>1. CASE \E u \in Users, o \in Orgs : CreateOrganization(u, o) /\ UNCHANGED changes
      BY <3>1, CreateOrganizationTypes
    <3>2. CASE changes' = changes + 1 /\ (TeamStep \/ RowStep \/ MemberStep \/ KeyStep \/ StoreStep)
      BY <3>2, TeamTypes, RowTypes, MemberTypes, KeyTypes DEF TypeOK
    <3> QED BY <2>2, <3>1, <3>2 DEF Next
  <2> QED BY <2>1, <2>2
<1> QED BY <1>1, InitTypes, PTL DEF Spec

(* A key holds no more than its owner, whatever its scope and whatever      *)
(* became of the owner's teams since it was made.                          *)
THEOREM Access_KeyWithinOwner == Spec => []KeyWithinOwner
  BY Access_TypeCorrect, KeysHold, PTL

(* A change request reaches just the readers of its workspace.              *)
THEOREM Access_AudienceIsReaders == Spec => []AudienceIsReaders
  BY Access_TypeCorrect, AudienceHolds, PTL

(* The flags of a workspace response promise what the actions allow.        *)
THEOREM Access_FlagsAgree == Spec => []FlagsAgree
  BY FlagsHold, PTL

(* A roll-up shown whole shows nothing a check would refuse.                *)
THEOREM Access_WholeOrganizationReads == Spec => []WholeOrganizationReads
  BY WholeReadsHold, PTL
=============================================================================
