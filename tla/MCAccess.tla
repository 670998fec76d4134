------------------------------ MODULE MCAccess -------------------------------
(* A small instance of Access for TLC: two organizations, each with its     *)
(* owner, one team to be made in the first, one project, one workspace.     *)
EXTENDS Access, TLC

CONSTANTS alice, bob, acme, globex, acmeOwners, acmeViewers, devs, globexOwners,
          globexViewers, p1, p2, w1, k1, g1

MCOrg == acmeOwners :> acme @@ acmeViewers :> acme @@ devs :> acme @@ p1 :> acme
         @@ globexOwners :> globex @@ globexViewers :> globex @@ p2 :> globex
MCProjectOf      == w1 :> p1
MCOwnersTeam     == acme :> acmeOwners @@ globex :> globexOwners
MCViewersTeam    == acme :> acmeViewers @@ globex :> globexViewers
MCDefaultProject == acme :> p1 @@ globex :> p2
MCNames          == {"owners", "viewers", "devs"}

MCAccessRequests ==
    {[on |-> {"org:read-ansible"}, off |-> {}],
     [on |-> {"org:manage-workspaces", "ansible:inventory:write"}, off |-> {"org:read-projects"}]}

MCRowRequests ==
    {[access |-> "maintain", custom |-> <<>>], [access |-> "plan", custom |-> <<>>],
     [access |-> "custom",
      custom |-> [f \in {"runs", "variables", "locking"} |->
                    IF f = "runs" THEN "apply" ELSE "write"]]}

Scopes1(type, id, levels) == {[type |-> type, id |-> id, level |-> l] : l \in levels}
MCScopeRequests ==
    {Scopes1("org", acme, {"write"}),
     Scopes1("team", acmeViewers, {"admin"}) \cup Scopes1("project", p1, {"admin"}),
     Scopes1("project", p1, {"read", "write"})}

Symmetry == Permutations({alice, bob})
=============================================================================
