-------------------------- MODULE MembershipProofs --------------------------
(* For any number of users, sessions and invites: an invite brings in one    *)
(* user at most, roles change for a reason, and the last admin is lost only  *)
(* where calls overlap.                                                      *)
EXTENDS Membership, FiniteSetTheorems, TLAPS

\* A session that has begun runs a call.
LEMMA Running ==
    ASSUME MembershipTypeOK, NEW s \in Sessions, at[s] # "idle"
    PROVE  req[s] \in Requests
BY DEF MembershipTypeOK

LEMMA EndsKeepsType ==
    ASSUME MembershipTypeOK, NEW s \in Sessions, Ends(s),
           role' \in [Users -> Roles \cup {"none"}],
           invite' \in [Invites -> {"unborn", "open", "used", "revoked"}],
           offered' \in [Invites -> Roles \cup {"none"}],
           joined' \in [Invites -> SUBSET Users]
    PROVE  MembershipTypeOK'
BY MembershipAssumption DEF MembershipTypeOK, Ends

LEMMA GoesKeepsType ==
    ASSUME MembershipTypeOK, NEW s \in Sessions, at[s] # "idle",
           NEW place \in {"begun", "allowed", "member", "locked", "writing"},
           Goes(s, place),
           rowLock' \in [Invites -> Sessions \cup {Free}],
           old' \in [Sessions -> Roles \cup {"none"}], counted' \in [Sessions -> Nat]
    PROVE  MembershipTypeOK'
BY DEF MembershipTypeOK, Goes, tables

\* Every step keeps the tables and the sessions well typed.
LEMMA TypeStep ==
    ASSUME MembershipTypeOK, [Next]_vars
    PROVE  MembershipTypeOK'
<1>1. CASE UNCHANGED vars
  BY <1>1 DEF vars, MembershipTypeOK
<1>2. ASSUME NEW s \in Sessions, NEW q \in Requests, Begin(s, q)
      PROVE  MembershipTypeOK'
  BY <1>2, MembershipAssumption DEF Begin, tables, MembershipTypeOK
<1>3. ASSUME NEW i \in Invites, Expire(i)
      PROVE  MembershipTypeOK'
  BY <1>3 DEF Expire, tables, MembershipTypeOK
<1>4. ASSUME NEW s \in Sessions, Step(s)
      PROVE  MembershipTypeOK'
  <2>1. at[s] # "idle" /\ req[s] \in Requests
    BY <1>4, Running DEF Step, Runs, AtInvite, Authorize, ReadMember, CountAdmins,
       RemoveMember, ChangeRole, CreateInvite, LockInvite, RevokeInvite, CheckInvite, Join
  <2>2. /\ req[s].user \in Users /\ req[s].caller \in Users
        /\ req[s].invite \in Invites /\ req[s].role \in Roles
    BY <2>1, MembershipAssumption
  <2>3. Refuses(s) => MembershipTypeOK'
    BY EndsKeepsType DEF Refuses, tables, MembershipTypeOK
  <2>4. CASE Authorize(s)
    BY <2>1, <2>3, <2>4, GoesKeepsType DEF Authorize, MembershipTypeOK
  <2>5. CASE ReadMember(s)
    BY <2>1, <2>2, <2>3, <2>5, GoesKeepsType DEF ReadMember, MembershipTypeOK
  <2>6. CASE CountAdmins(s)
    <3>1. Cardinality(Admins) \in Nat
      BY MembershipAssumption, FS_Subset, FS_CardinalityType DEF Admins
    <3>. QED  BY <2>1, <2>3, <2>6, <3>1, GoesKeepsType DEF CountAdmins, MembershipTypeOK
  <2>7. CASE RemoveMember(s) \/ ChangeRole(s)
    BY <2>2, <2>7, EndsKeepsType DEF RemoveMember, ChangeRole, MembershipTypeOK
  <2>8. CASE CreateInvite(s)
    BY <2>2, <2>3, <2>8, EndsKeepsType DEF CreateInvite, MembershipTypeOK
  <2>9. CASE LockInvite(s)
    BY <2>1, <2>2, <2>3, <2>9, GoesKeepsType DEF LockInvite, MembershipTypeOK
  <2>10. CASE RevokeInvite(s)
    BY <2>2, <2>3, <2>10, EndsKeepsType DEF RevokeInvite, MembershipTypeOK
  <2>11. CASE CheckInvite(s)
    BY <2>1, <2>2, <2>3, <2>11, EndsKeepsType, GoesKeepsType
       DEF CheckInvite, MembershipTypeOK
  <2>12. CASE Join(s)
    BY <2>2, <2>3, <2>12, EndsKeepsType, MembershipAssumption DEF Join, MembershipTypeOK
  <2>. QED  BY <1>4, <2>4, <2>5, <2>6, <2>7, <2>8, <2>9, <2>10, <2>11, <2>12 DEF Step
<1>. QED  BY <1>1, <1>2, <1>3, <1>4 DEF Next

-----------------------------------------------------------------------------
(* Invites.                                                                 *)

\* A step of a session leaves the rows that others have locked to them.
LEMMA LocksKept ==
    ASSUME MembershipTypeOK, NEW s \in Sessions, Step(s)
    PROVE  \A r \in Sessions \ {s}, i \in Invites : rowLock[i] = r => rowLock'[i] = r
BY MembershipAssumption
   DEF MembershipTypeOK, Step, Authorize, ReadMember, CountAdmins, RemoveMember, ChangeRole,
       CreateInvite, LockInvite, RevokeInvite, CheckInvite, Join, Refuses, Ends, Goes

\* A step of a session leaves the calls of the others alone.
LEMMA OthersWait ==
    ASSUME MembershipTypeOK, NEW s \in Sessions, Step(s)
    PROVE  \A r \in Sessions \ {s} : at'[r] = at[r] /\ req'[r] = req[r]
                                     /\ old'[r] = old[r] /\ counted'[r] = counted[r]
BY DEF MembershipTypeOK, Step, Authorize, ReadMember, CountAdmins, RemoveMember, ChangeRole,
       CreateInvite, LockInvite, RevokeInvite, CheckInvite, Join, Refuses, Ends, Goes

\* An invite changes only by a session that holds its row, or as it is created.
LEMMA InviteWrites ==
    ASSUME InviteInv, NEW s \in Sessions, Step(s), NEW i \in Invites, invite'[i] # invite[i]
    PROVE  \/ invite[i] = "unborn" /\ invite'[i] = "open"
           \/ rowLock[i] = s /\ at'[s] = "idle"
<1>. USE DEF MembershipTypeOK, InviteInv, RowOwned, Runs, Refuses, tables, Ends, Goes
<1>1. CASE CreateInvite(s)  BY <1>1 DEF CreateInvite
<1>2. CASE RevokeInvite(s)  BY <1>2 DEF RevokeInvite
<1>3. CASE CheckInvite(s)   BY <1>3 DEF CheckInvite
<1>4. CASE Join(s)          BY <1>4 DEF Join
<1>. QED
  BY <1>1, <1>2, <1>3, <1>4
     DEF Step, Authorize, ReadMember, CountAdmins, RemoveMember, ChangeRole, LockInvite

LEMMA InviteStep ==
    ASSUME InviteInv, NEW s \in Sessions, Step(s)
    PROVE  RowOwned' /\ JoinsOpen' /\ InviteUsedOnce'
<1>. USE DEF MembershipTypeOK, InviteInv
<1>0. \A r \in Sessions : at[r] # "idle" => req[r].invite \in Invites
  BY Running, MembershipAssumption
<1>1. RowOwned'
  <2>. SUFFICES ASSUME NEW r \in Sessions,
                       (Runs(r, {"redeem", "revoke"}, "locked") \/ Runs(r, {"redeem"}, "writing"))'
                PROVE  /\ rowLock'[req'[r].invite] = r
                       /\ invite'[req'[r].invite] \in {"open", "used"}
    BY DEF RowOwned
  <2>1. CASE r # s
    <3>1. /\ rowLock[req[r].invite] = r /\ invite[req[r].invite] \in {"open", "used"}
          /\ req'[r] = req[r] /\ at[r] # "idle"
      BY <2>1, OthersWait DEF RowOwned, Runs
    <3>. QED  BY <2>1, <3>1, <1>0, LocksKept, InviteWrites
  <2>2. CASE r = s
    <3>1. CASE LockInvite(s)
      BY <2>2, <3>1, <1>0 DEF LockInvite, AtInvite, Runs, Goes, Refuses, Ends, tables
    <3>2. CASE CheckInvite(s)
      BY <2>2, <3>2, <1>0 DEF CheckInvite, RowOwned, Runs, Goes, Refuses, Ends, tables
    <3>. QED
      BY <2>2, <3>1, <3>2 DEF Step, Authorize, ReadMember, CountAdmins, RemoveMember, ChangeRole,
         CreateInvite, RevokeInvite, Join, Runs, Goes, Refuses, Ends
  <2>. QED  BY <2>1, <2>2
<1>2. JoinsOpen'
  <2>. SUFFICES ASSUME NEW r \in Sessions, Runs(r, {"redeem"}, "writing")'
                PROVE  invite'[req'[r].invite] = "open"
    BY DEF JoinsOpen
  <2>1. CASE r # s
    <3>1. /\ rowLock[req[r].invite] = r /\ invite[req[r].invite] = "open"
          /\ req'[r] = req[r] /\ at[r] # "idle"
      BY <2>1, OthersWait DEF RowOwned, JoinsOpen, Runs
    <3>. QED  BY <2>1, <3>1, <1>0, InviteWrites
  <2>2. CASE r = s
    <3>1. CASE CheckInvite(s)
      BY <2>2, <3>1, <1>0 DEF CheckInvite, RowOwned, Runs, Goes, Refuses, Ends, tables
    <3>. QED
      BY <2>2, <3>1 DEF Step, Authorize, ReadMember, CountAdmins, RemoveMember, ChangeRole,
         CreateInvite, LockInvite, RevokeInvite, Join, Runs, Goes, Refuses, Ends
  <2>. QED  BY <2>1, <2>2
<1>3. InviteUsedOnce'
  <2>1. CASE Join(s)
    <3>. DEFINE i == req[s].invite
    <3>1. i \in Invites /\ Runs(s, {"redeem"}, "writing") /\ invite[i] = "open"
      BY <2>1, <1>0 DEF Join, Runs, JoinsOpen
    <3>2. joined[i] = {}
      BY <3>1 DEF InviteUsedOnce
    <3>3. \A j \in Invites \ {i} : joined'[j] = joined[j] /\ invite'[j] = invite[j]
      BY <2>1 DEF Join, Refuses, tables
    <3>4. \/ joined'[i] = {}
          \/ joined'[i] = {req[s].caller} /\ invite'[i] = "used"
      BY <2>1, <3>1, <3>2 DEF Join, Refuses, tables
    <3>5. Cardinality({}) <= 1 /\ Cardinality({req[s].caller}) <= 1
      <4>1. Cardinality({}) = 0 /\ Cardinality({req[s].caller}) = 1
        BY FS_EmptySet, FS_Singleton, Zenon
      <4>. QED  BY <4>1
    <3>. QED  BY <3>1, <3>3, <3>4, <3>5 DEF InviteUsedOnce
  <2>2. CASE ~Join(s)
    <3>1. joined' = joined
      BY <2>2 DEF Step, Authorize, ReadMember, CountAdmins, RemoveMember, ChangeRole,
         CreateInvite, LockInvite, RevokeInvite, CheckInvite, Refuses, Goes, Ends, tables
    <3>2. \A i \in Invites : invite[i] = "used" => invite'[i] = "used"
      BY <2>2 DEF Step, Authorize, ReadMember, CountAdmins, RemoveMember, ChangeRole,
         CreateInvite, LockInvite, RevokeInvite, CheckInvite, Refuses, Goes, Ends, tables
    <3>. QED  BY <3>1, <3>2 DEF InviteUsedOnce
  <2>. QED  BY <2>1, <2>2
<1>. QED  BY <1>1, <1>2, <1>3

LEMMA InviteInvStep ==
    ASSUME InviteInv, [Next]_vars
    PROVE  InviteInv'
<1>0. MembershipTypeOK'  BY TypeStep DEF InviteInv
<1>1. CASE UNCHANGED vars
  BY <1>0, <1>1 DEF vars, InviteInv, RowOwned, JoinsOpen, InviteUsedOnce, Runs
<1>2. ASSUME NEW s \in Sessions, NEW q \in Requests, Begin(s, q)
      PROVE  InviteInv'
  BY <1>0, <1>2 DEF Begin, tables, InviteInv, MembershipTypeOK, RowOwned, JoinsOpen,
     InviteUsedOnce, Runs
<1>3. ASSUME NEW i \in Invites, Expire(i)
      PROVE  InviteInv'
  BY <1>0, <1>3 DEF Expire, tables, InviteInv, RowOwned, JoinsOpen, InviteUsedOnce, Runs
<1>4. ASSUME NEW s \in Sessions, Step(s)
      PROVE  InviteInv'
  BY <1>0, <1>4, InviteStep DEF InviteInv
<1>. QED  BY <1>1, <1>2, <1>3, <1>4 DEF Next

LEMMA InviteInit ==
    ASSUME Init
    PROVE  InviteInv
<1>1. MembershipTypeOK
  BY MembershipAssumption DEF Init, MembershipTypeOK
<1>2. InviteUsedOnce
  BY FS_EmptySet DEF Init, InviteUsedOnce
<1>. QED  BY <1>1, <1>2 DEF InviteInv, Init, RowOwned, JoinsOpen, Runs

\* The inductive invariant of redeem_org_invite and revoke_org_invite.
THEOREM InvitesAreLocked == Spec => []InviteInv
<1>. QED  BY InviteInit, InviteInvStep, PTL DEF Spec

\* However many users redeem an invite at once, and whoever revokes it
\* meanwhile, it brings in one of them at most (redeem_org_invite).
THEOREM OneJoinsByAnInvite == Spec => []InviteUsedOnce
<1>1. InviteInv => InviteUsedOnce  BY DEF InviteInv
<1>. QED  BY <1>1, InvitesAreLocked, PTL

-----------------------------------------------------------------------------
(* Roles.                                                                   *)

\* Only three statements write organization_members.
LEMMA RoleWrites ==
    ASSUME MembershipTypeOK, [Next]_vars, NEW u \in Users, role'[u] # role[u]
    PROVE  \E s \in Sessions :
               /\ at[s] = "writing" /\ at'[s] = "idle"
               /\ IF role[u] = "none"
                  THEN /\ req[s].op = "redeem" /\ req[s].caller = u
                       /\ role'[u] = offered[req[s].invite]
                  ELSE /\ req[s].op \in {"remove", "change"} /\ req[s].user = u
                       /\ RemoveMember(s) \/ ChangeRole(s)
<1>1. PICK s \in Sessions : Step(s)
  BY DEF Next, Begin, Expire, vars, tables
<1>2. at[s] # "idle" => req[s].user \in Users /\ req[s].caller \in Users
  BY Running, MembershipAssumption
<1>. USE DEF MembershipTypeOK, Runs, Ends
<1>3. CASE RemoveMember(s)  BY <1>2, <1>3 DEF RemoveMember
<1>4. CASE ChangeRole(s)    BY <1>2, <1>4 DEF ChangeRole
<1>5. CASE Join(s)          BY <1>2, <1>5 DEF Join, Refuses, tables
<1>6. CASE ~(RemoveMember(s) \/ ChangeRole(s) \/ Join(s))
  BY <1>1, <1>6 DEF Step, Authorize, ReadMember, CountAdmins, CreateInvite, LockInvite,
     RevokeInvite, CheckInvite, Refuses, Goes, tables
<1>. QED  BY <1>1, <1>3, <1>4, <1>5, <1>6

\* A role changes by admin_change_member_role or admin_remove_member alone; who
\* was out comes in by redeem_org_invite with the role of the invite.
THEOREM RolesChangeForAReason == Spec => RolesHaveReasons
<1>1. MembershipTypeOK /\ [Next]_vars => [\A u \in Users : role'[u] # role[u] =>
           \E s \in Sessions :
               /\ at'[s] = "idle" /\ at[s] = "writing"
               /\ IF role[u] = "none"
                  THEN /\ req[s].op = "redeem" /\ req[s].caller = u
                       /\ role'[u] = offered[req[s].invite]
                  ELSE req[s].op \in {"remove", "change"} /\ req[s].user = u]_vars
  <2>. SUFFICES ASSUME MembershipTypeOK, [Next]_vars, NEW u \in Users, role'[u] # role[u]
                PROVE  \E s \in Sessions :
                         /\ at'[s] = "idle" /\ at[s] = "writing"
                         /\ IF role[u] = "none"
                            THEN /\ req[s].op = "redeem" /\ req[s].caller = u
                                 /\ role'[u] = offered[req[s].invite]
                            ELSE req[s].op \in {"remove", "change"} /\ req[s].user = u
    OBVIOUS
  <2>. QED  BY RoleWrites
<1>2. Init => MembershipTypeOK  BY InviteInit DEF InviteInv
<1>3. MembershipTypeOK /\ [Next]_vars => MembershipTypeOK'  BY TypeStep
<1>. QED  BY <1>1, <1>2, <1>3, PTL DEF Spec, RolesHaveReasons

LEMMA WritersStep ==
    ASSUME MembershipTypeOK, WritersLooked, [Next]_vars
    PROVE  WritersLooked'
<1>. USE DEF MembershipTypeOK, Runs
<1>1. CASE UNCHANGED vars
  BY <1>1 DEF vars, WritersLooked
<1>2. ASSUME NEW s \in Sessions, NEW q \in Requests, Begin(s, q)
      PROVE  WritersLooked'
  BY <1>2 DEF Begin, WritersLooked
<1>3. ASSUME NEW i \in Invites, Expire(i)
      PROVE  WritersLooked'
  BY <1>3 DEF Expire, WritersLooked
<1>4. ASSUME NEW s \in Sessions, Step(s)
      PROVE  WritersLooked'
  <2>. SUFFICES ASSUME NEW r \in Sessions, Runs(r, {"remove", "change"}, "writing")'
                PROVE  \/ req'[r].op = "change" /\ req'[r].role \in AdminRoles
                       \/ counted'[r] > 1
                       \/ old'[r] \notin AdminRoles
    BY DEF WritersLooked
  <2>1. CASE r # s
    BY <1>4, <2>1, OthersWait DEF WritersLooked
  <2>2. CASE r = s
    <3>1. CASE ReadMember(s)
      BY <2>2, <3>1 DEF ReadMember, CostsAnAdmin, IsAdmin, Goes, Refuses, Ends
    <3>2. CASE CountAdmins(s)
      <4>1. Cardinality(Admins) \in Nat
        BY MembershipAssumption, FS_Subset, FS_CardinalityType DEF Admins
      <4>. QED  BY <2>2, <3>2, <4>1 DEF CountAdmins, Goes, Refuses, Ends
    <3>. QED
      BY <1>4, <2>2, <3>1, <3>2 DEF Step, Authorize, RemoveMember, ChangeRole, CreateInvite,
         LockInvite, RevokeInvite, CheckInvite, Join, Refuses, Ends, Goes
  <2>. QED  BY <2>1, <2>2
<1>. QED  BY <1>1, <1>2, <1>3, <1>4 DEF Next

\* admin_remove_member and admin_change_member_role: the organization loses its
\* last admin only to a call that had counted others besides him, or had read
\* his role before he became one.
THEOREM LastAdminLostByRacesOnly == Spec => OnlyRacesCostTheLastAdmin
<1>1. MembershipTypeOK /\ WritersLooked /\ [Next]_vars =>
        [Admins # {} /\ Admins' = {} =>
           \E s \in Sessions :
               /\ at[s] = "writing" /\ at'[s] = "idle"
               /\ counted[s] > 1 \/ old[s] \notin AdminRoles]_vars
  <2>. SUFFICES ASSUME MembershipTypeOK, WritersLooked, [Next]_vars,
                       Admins # {}, Admins' = {}
                PROVE  \E s \in Sessions :
                         /\ at[s] = "writing" /\ at'[s] = "idle"
                         /\ counted[s] > 1 \/ old[s] \notin AdminRoles
    OBVIOUS
  <2>1. PICK u \in Users : role[u] \in AdminRoles /\ role'[u] \notin AdminRoles
    BY DEF Admins, IsAdmin
  <2>2. role[u] # "none" /\ role'[u] # role[u]
    BY <2>1 DEF AdminRoles
  <2>3. PICK s \in Sessions :
            /\ at[s] = "writing" /\ at'[s] = "idle"
            /\ req[s].op \in {"remove", "change"} /\ req[s].user = u
            /\ RemoveMember(s) \/ ChangeRole(s)
    BY <2>2, RoleWrites
  <2>4. ~(req[s].op = "change" /\ req[s].role \in AdminRoles)
    BY <2>1, <2>2, <2>3 DEF RemoveMember, ChangeRole, Runs, MembershipTypeOK
  <2>. QED  BY <2>3, <2>4 DEF WritersLooked, Runs
<1>2. Init => MembershipTypeOK /\ WritersLooked
  BY InviteInit DEF InviteInv, Init, WritersLooked, Runs
<1>3. MembershipTypeOK /\ WritersLooked /\ [Next]_vars => (MembershipTypeOK /\ WritersLooked)'
  BY TypeStep, WritersStep
<1>. QED  BY <1>1, <1>2, <1>3, PTL DEF Spec, OnlyRacesCostTheLastAdmin
=============================================================================
