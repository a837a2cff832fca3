----------------------------- MODULE Membership -----------------------------
(***************************************************************************)
(* The members of one organization and its invites, under concurrent calls *)
(* of admin_remove_member, admin_change_member_role, create_org_invite,    *)
(* redeem_org_invite and revoke_org_invite.  The transactions are READ     *)
(* COMMITTED: a function is a sequence of statements, each of which sees   *)
(* what had been committed before it, and its last step writes and         *)
(* commits.  The only lock held from one statement to the next is the row  *)
(* of an invite, taken by SELECT ... FOR UPDATE.                           *)
(***************************************************************************)
EXTENDS FiniteSets, Naturals

CONSTANTS
    Sessions,   \* database sessions; a user may have several
    Users,
    Invites,    \* identifiers an invite may get
    Roles,
    Requests,   \* calls the sessions may make
    NoCall,     \* what an idle session runs
    Free        \* the lock of a row nobody holds

AdminRoles == {"admin", "tenant_admin"}
Ops == {"remove", "change", "create", "redeem", "revoke"}

ASSUME MembershipAssumption ==
    /\ Roles \cap AdminRoles # {} /\ "none" \notin Roles
    /\ Requests \subseteq [op : Ops, caller : Users, user : Users, role : Roles,
                           invite : Invites]
    /\ NoCall \notin Requests /\ Free \notin Sessions
    /\ IsFiniteSet(Users)

VARIABLES
    role,       \* organization_members, "none" without a row
    invite,     \* "unborn", "open", "used", or "revoked" once the row is gone
    offered,    \* role of an invite
    expired,    \* invites whose expires_at has passed
    rowLock,    \* who holds the row of an invite
    at,         \* where each session is in its function
    req,        \* the call it makes
    stale,      \* invites expired at now(), the start of its transaction
    old,        \* v_member_role, v_old_role
    counted,    \* v_admin_count
    joined      \* history: the users each invite brought in

vars == <<role, invite, offered, expired, rowLock, at, req, stale, old, counted, joined>>
tables == <<role, invite, offered, joined>>

MembershipTypeOK ==
    /\ role    \in [Users -> Roles \cup {"none"}]
    /\ invite  \in [Invites -> {"unborn", "open", "used", "revoked"}]
    /\ offered \in [Invites -> Roles \cup {"none"}]
    /\ expired \in SUBSET Invites
    /\ rowLock \in [Invites -> Sessions \cup {Free}]
    /\ at      \in [Sessions -> {"idle", "begun", "allowed", "member", "locked", "writing"}]
    /\ req     \in [Sessions -> Requests \cup {NoCall}]
    /\ \A s \in Sessions : req[s] = NoCall <=> at[s] = "idle"
    /\ stale   \in [Sessions -> SUBSET Invites]
    /\ old     \in [Sessions -> Roles \cup {"none"}]
    /\ counted \in [Sessions -> Nat]
    /\ joined  \in [Invites -> SUBSET Users]

IsAdmin(u) == role[u] \in AdminRoles
Admins     == {u \in Users : IsAdmin(u)}

\* The organization has the admin who created it, and whoever came since.
Init ==
    /\ role    \in [Users -> Roles \cup {"none"}]
    /\ Admins  # {}
    /\ invite  = [i \in Invites |-> "unborn"]
    /\ offered = [i \in Invites |-> "none"]
    /\ expired = {}
    /\ rowLock = [i \in Invites |-> Free]
    /\ at      = [s \in Sessions |-> "idle"]
    /\ req     = [s \in Sessions |-> NoCall]
    /\ stale   = [s \in Sessions |-> {}]
    /\ old     = [s \in Sessions |-> "none"]
    /\ counted = [s \in Sessions |-> 0]
    /\ joined  = [i \in Invites |-> {}]

-----------------------------------------------------------------------------
(* Transactions.                                                            *)

Runs(s, ops, place) == at[s] = place /\ req[s].op \in ops

Begin(s, q) ==
    /\ at[s] = "idle"
    /\ at'    = [at EXCEPT ![s] = "begun"]
    /\ req'   = [req EXCEPT ![s] = q]
    /\ stale' = [stale EXCEPT ![s] = expired]
    /\ UNCHANGED <<tables, expired, rowLock, old, counted>>

Ends(s) ==
    /\ at'      = [at EXCEPT ![s] = "idle"]
    /\ rowLock' = [i \in Invites |-> IF rowLock[i] = s THEN Free ELSE rowLock[i]]
    /\ req'     = [req EXCEPT ![s] = NoCall]
    /\ stale'   = [stale EXCEPT ![s] = {}]
    /\ old'     = [old EXCEPT ![s] = "none"]
    /\ counted' = [counted EXCEPT ![s] = 0]
    /\ UNCHANGED expired

\* RAISE EXCEPTION
Refuses(s) == Ends(s) /\ UNCHANGED tables

Goes(s, place) ==
    /\ at' = [at EXCEPT ![s] = place]
    /\ UNCHANGED <<tables, expired, req, stale>>

\* is_org_admin(), and nobody removes himself
Authorize(s) ==
    /\ Runs(s, {"remove", "change", "create", "revoke"}, "begun")
    /\ LET q == req[s] IN
       IF IsAdmin(q.caller) /\ ~(q.op = "remove" /\ q.caller = q.user)
       THEN Goes(s, "allowed") /\ UNCHANGED <<rowLock, old, counted>>
       ELSE Refuses(s)

-----------------------------------------------------------------------------
(* admin_remove_member and admin_change_member_role                         *)

\* Mutant: stepping down oneself is not counted.
CostsAnAdminUnlessOwn(q) ==
    /\ IsAdmin(q.user)
    /\ q.op = "remove" \/ q.role \notin AdminRoles
    /\ q.user # q.caller

CostsAnAdmin(q) ==
    /\ IsAdmin(q.user)
    /\ q.op = "remove" \/ q.role \notin AdminRoles

ReadMember(s) ==
    /\ Runs(s, {"remove", "change"}, "allowed")
    /\ IF role[req[s].user] = "none" THEN Refuses(s)
       ELSE /\ Goes(s, IF CostsAnAdmin(req[s]) THEN "member" ELSE "writing")
            /\ old' = [old EXCEPT ![s] = role[req[s].user]]
            /\ UNCHANGED <<rowLock, counted>>

CountAdmins(s) ==
    /\ Runs(s, {"remove", "change"}, "member")
    /\ IF Cardinality(Admins) <= 1 THEN Refuses(s)
       ELSE /\ counted' = [counted EXCEPT ![s] = Cardinality(Admins)]
            /\ Goes(s, "writing") /\ UNCHANGED <<rowLock, old>>

RemoveMember(s) ==
    /\ Runs(s, {"remove"}, "writing")
    /\ role' = [role EXCEPT ![req[s].user] = "none"]
    /\ Ends(s) /\ UNCHANGED <<invite, offered, joined>>

\* The row may be gone by now.
ChangeRole(s) ==
    /\ Runs(s, {"change"}, "writing")
    /\ role' = [role EXCEPT ![req[s].user] = IF @ = "none" THEN @ ELSE req[s].role]
    /\ Ends(s) /\ UNCHANGED <<invite, offered, joined>>

-----------------------------------------------------------------------------
(* Invites.                                                                 *)

\* create_org_invite gives up when no code is free.
CreateInvite(s) ==
    /\ Runs(s, {"create"}, "allowed")
    /\ \/ /\ invite[req[s].invite] = "unborn"
          /\ invite'  = [invite EXCEPT ![req[s].invite] = "open"]
          /\ offered' = [offered EXCEPT ![req[s].invite] = req[s].role]
          /\ Ends(s) /\ UNCHANGED <<role, joined>>
       \/ Refuses(s)

Expire(i) ==
    /\ invite[i] = "open" /\ i \notin expired
    /\ expired' = expired \cup {i}
    /\ UNCHANGED <<tables, rowLock, at, req, stale, old, counted>>

AtInvite(s) == Runs(s, {"redeem"}, "begun") \/ Runs(s, {"revoke"}, "allowed")

\* Mutant: a plain SELECT.
ReadInvite(s) ==
    /\ AtInvite(s)
    /\ IF invite[req[s].invite] \in {"open", "used"}
       THEN Goes(s, "locked") /\ UNCHANGED <<rowLock, old, counted>>
       ELSE Refuses(s)

\* SELECT ... FOR UPDATE waits for the row and finds it as it then is, or gone.
LockInvite(s) ==
    /\ AtInvite(s)
    /\ LET i == req[s].invite IN
       IF invite[i] \in {"open", "used"}
       THEN /\ rowLock[i] = Free
            /\ rowLock' = [rowLock EXCEPT ![i] = s]
            /\ Goes(s, "locked") /\ UNCHANGED <<old, counted>>
       ELSE Refuses(s)

RevokeInvite(s) ==
    /\ Runs(s, {"revoke"}, "locked")
    /\ IF invite[req[s].invite] = "used" THEN Refuses(s)
       ELSE /\ invite' = [invite EXCEPT ![req[s].invite] = "revoked"]
            /\ Ends(s) /\ UNCHANGED <<role, offered, joined>>

\* The caller who is a member already uses the invite up and keeps his role.
CheckInvite(s) ==
    /\ Runs(s, {"redeem"}, "locked")
    /\ LET i == req[s].invite IN
       IF invite[i] = "used" \/ i \in stale[s] THEN Refuses(s)
       ELSE IF role[req[s].caller] # "none"
       THEN /\ invite' = [invite EXCEPT ![i] = "used"]
            /\ Ends(s) /\ UNCHANGED <<role, offered, joined>>
       ELSE Goes(s, "writing") /\ UNCHANGED <<rowLock, old, counted>>

\* Mutant: ON CONFLICT DO UPDATE SET role.
JoinUpserting(s) ==
    /\ Runs(s, {"redeem"}, "writing")
    /\ LET i == req[s].invite  u == req[s].caller IN
       /\ role'   = [role EXCEPT ![u] = offered[i]]
       /\ invite' = [invite EXCEPT ![i] = "used"]
       /\ joined' = [joined EXCEPT ![i] = @ \cup {u}]
       /\ Ends(s) /\ UNCHANGED offered

\* The primary key rejects a caller who joined by another invite meanwhile,
\* and the invite stays open.
Join(s) ==
    /\ Runs(s, {"redeem"}, "writing")
    /\ LET i == req[s].invite  u == req[s].caller IN
       IF role[u] # "none" THEN Refuses(s)
       ELSE /\ role'   = [role EXCEPT ![u] = offered[i]]
            /\ invite' = [invite EXCEPT ![i] = "used"]
            /\ joined' = [joined EXCEPT ![i] = @ \cup {u}]
            /\ Ends(s) /\ UNCHANGED offered

-----------------------------------------------------------------------------
Step(s) ==
    \/ Authorize(s)
    \/ ReadMember(s) \/ CountAdmins(s) \/ RemoveMember(s) \/ ChangeRole(s)
    \/ CreateInvite(s) \/ LockInvite(s) \/ RevokeInvite(s)
    \/ CheckInvite(s) \/ Join(s)

Next == \/ \E s \in Sessions : Step(s) \/ \E q \in Requests : Begin(s, q)
        \/ \E i \in Invites : Expire(i)

Spec == Init /\ [][Next]_vars

-----------------------------------------------------------------------------
(* Safety.                                                                  *)

\* "two concurrent redeems of the same code can't both pass the used_at
\* check": an invite brings in one user at most, none once it was revoked,
\* and it is used up as soon as it has.
InviteUsedOnce ==
    \A i \in Invites :
        /\ Cardinality(joined[i]) <= 1
        /\ joined[i] # {} => invite[i] = "used"

\* The last admin goes only where two calls overlap: the one that takes him
\* away had counted others besides him, or had found him no admin at all.
OnlyRacesCostTheLastAdmin ==
    [][Admins # {} /\ Admins' = {} =>
           \E s \in Sessions :
               /\ at[s] = "writing" /\ at'[s] = "idle"
               /\ counted[s] > 1 \/ old[s] \notin AdminRoles]_vars

\* Who is in, keeps his role until somebody changes it or removes him, whatever
\* invites he redeems; who is out comes in by an invite alone, with its role.
RolesHaveReasons ==
    [][\A u \in Users : role'[u] # role[u] =>
           \E s \in Sessions :
               /\ at'[s] = "idle" /\ at[s] = "writing"
               /\ IF role[u] = "none"
                  THEN /\ req[s].op = "redeem" /\ req[s].caller = u
                       /\ role'[u] = offered[req[s].invite]
                  ELSE req[s].op \in {"remove", "change"} /\ req[s].user = u]_vars

\* What makes InviteUsedOnce inductive: whoever is past the lock of an invite
\* holds it, and an invite about to bring somebody in is open.
RowOwned ==
    \A s \in Sessions :
        Runs(s, {"redeem", "revoke"}, "locked") \/ Runs(s, {"redeem"}, "writing") =>
            rowLock[req[s].invite] = s /\ invite[req[s].invite] \in {"open", "used"}

JoinsOpen ==
    \A s \in Sessions : Runs(s, {"redeem"}, "writing") => invite[req[s].invite] = "open"

InviteInv == MembershipTypeOK /\ RowOwned /\ JoinsOpen /\ InviteUsedOnce

\* What OnlyRacesCostTheLastAdmin rests on: a call about to write to a member
\* keeps an admin, or counted others, or found no admin to lose.
WritersLooked ==
    \A s \in Sessions :
        Runs(s, {"remove", "change"}, "writing") =>
            \/ req[s].op = "change" /\ req[s].role \in AdminRoles
            \/ counted[s] > 1
            \/ old[s] \notin AdminRoles

-----------------------------------------------------------------------------
(* What the repository says and the functions do not keep.                  *)

\* "Block removing the last admin-equivalent member"
\* (supabase/migrations/20260613000005_crud_review_fixes.sql:253)
SomeAdminRemains == Admins # {}
=============================================================================
