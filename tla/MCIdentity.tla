----------------------------- MODULE MCIdentity -----------------------------
(***************************************************************************)
(* An instance of Identity with three workloads: newcomers who register,   *)
(* verify and log in; a user and an admin who both change the user's       *)
(* account while the user's requests are authenticated; and a user who     *)
(* forgets, resets and changes the password.                               *)
(***************************************************************************)
EXTENDS Identity

Verified(email, role) ==
    [email |-> email, role |-> role, password |-> "p1", verified |-> TRUE, deleted |-> FALSE]

Nothing == [u \in Users |-> None]
NoReset == [k \in ResetTokens |-> None]

Empty ==
    [users |-> Nothing, verification |-> Nothing, reset |-> NoReset, inbox |-> {}, access |-> {}, refresh |-> {}]

\* User 1 is a buyer, user 2 an admin; both are verified and logged in.
LoggedIn ==
    [users |-> [Nothing EXCEPT ![1] = Verified("e1", "Buyer"), ![2] = Verified("e2", "Admin")],
     verification |-> [Nothing EXCEPT ![1] = "used", ![2] = "used"],
     reset |-> NoReset,
     inbox |-> {<<"verify", 1>>, <<"verify", 2>>},
     access |-> {<<1, "Buyer">>, <<2, "Admin">>}, refresh |-> {}]

\* User 1 has asked for a reset token before.
Forgetful ==
    [LoggedIn EXCEPT !.reset[1] = [user |-> 1, state |-> "valid"],
                     !.inbox = @ \cup {<<"reset", 1>>},
                     !.access = {<<1, "Buyer">>}]

Register(e, p) == [op |-> "create_user_account", email |-> e, role |-> "Buyer", password |-> p]
Login(e, p)    == [op |-> "login_user", email |-> e, password |-> p]
Get(c, u)      == [op |-> "get_user", caller |-> c, id |-> u]
Update(c, u, e, role) == [op |-> "update_user_account", caller |-> c, id |-> u, email |-> e, role |-> role]
Delete(c, u)   == [op |-> "delete_user_account", caller |-> c, id |-> u]
Change(u, p, q) == [op |-> "change_password", caller |-> u, id |-> u, current |-> p, password |-> q]
Reset(k, p)    == [op |-> "reset_password", token |-> k, password |-> p]

Newcomers ==
    {Register("e1", "p1"), Register("e2", "p2"), Login("e1", "p1"), Login("e1", "p2"),
     [op |-> "generate_refresh_token", id |-> 1], Update(1, 1, "e2", "Buyer"), Delete(1, 1)}
    \cup {[op |-> "verify_email", id |-> u] : u \in {1, 2}}

Sessions ==
    {Get(1, 1), Update(2, 1, "e1", "Admin"), Delete(2, 1), Delete(1, 2)}

Passwords ==
    {[op |-> "forgot_password", email |-> e] : e \in {"e1", "e4"}}
    \cup {Reset(1, "p2"), Reset(1, "p3"), Reset(2, "p2"), Change(1, "p1", "p2"), Login("e1", "p1"), Delete(1, 1)}

MCWorkloads ==
    [newcomers |-> [start |-> Empty, requests |-> 4, operations |-> Newcomers],
     sessions  |-> [start |-> LoggedIn, requests |-> 3, operations |-> Sessions],
     passwords |-> [start |-> Forgetful, requests |-> 3, operations |-> Passwords]]

=============================================================================
