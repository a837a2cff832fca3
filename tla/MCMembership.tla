---------------------------- MODULE MCMembership ----------------------------
(* Two users, each of whom may be an admin, a coach or not in yet, and two   *)
(* sessions, which may both be of one user; one invite is for a coach, one   *)
(* for an admin.                                                             *)
EXTENDS Membership, TLC

CONSTANTS s1, s2, s3, ann, bob, i1, i2

Call(op, caller, user, r, i) ==
    [op |-> op, caller |-> caller, user |-> user, role |-> r, invite |-> i]

AnyCall ==
    {Call("remove", ann, bob, "coach", i1), Call("remove", bob, ann, "coach", i1),
     Call("change", ann, ann, "coach", i1), Call("change", bob, ann, "admin", i1),
     Call("change", ann, bob, "coach", i1)}
        \cup {Call("create", ann, ann, "coach", i1), Call("create", ann, ann, "admin", i2)}
        \cup [op : {"redeem"}, caller : Users, user : {ann}, role : {"coach"}, invite : Invites]
        \cup {Call("revoke", ann, ann, "coach", i1)}

MemberCalls == {q \in AnyCall : q.op \in {"remove", "change"}}

Symmetry == Permutations(Sessions)
=============================================================================
