------------------------------ MODULE Sessions ------------------------------
(***************************************************************************)
(* The auth service: accounts, refresh-token sessions and password-reset   *)
(* links (services/auth).                                                  *)
(*                                                                         *)
(* The handlers are synchronous, so the server runs them in a thread pool  *)
(* and requests overlap; the two TinyDB tables have no lock and no         *)
(* transaction.  A request is therefore a little program whose steps are   *)
(* its table calls: between two of them another request may read or write. *)
(* A refused request leaves its thread idle.  Time is not modelled: expiry *)
(* only takes choices away, for an expired token or link is one that no    *)
(* request presents again with effect.                                     *)
(***************************************************************************)
EXTENDS Naturals, Sequences, FiniteSets, FiniteSetsExt, Functions

CONSTANTS
    Requests,    \* the threads of the pool that serve requests
    Emails,
    Passwords,
    Locations,   \* canonical location slugs
    NoLocation,  \* a session without a location claim (self-registration)
    FirstTables, \* the users tables a behaviour may start from
    MaxUsers,    \* rows of the users table
    MaxWork      \* tokens, links and account operations of one behaviour

UserIds == 1..(MaxWork + 1)
NoLink == 0
NoToken == 0

\* A row of the users table: "link" is the digest of the newest reset link.
UserRow == [id : UserIds, email : Emails, pw : Passwords, admin : BOOLEAN,
            locs : SUBSET Locations, link : Nat, late : BOOLEAN]

ASSUME SessionsAssumption ==
    /\ NoLocation \notin Locations
    /\ {MaxUsers, MaxWork} \subseteq Nat
    /\ \A T \in FirstTables :
          /\ DOMAIN T \subseteq Nat
          /\ \A k \in DOMAIN T : T[k] \in UserRow /\ T[k].link = NoLink

\* What create_user wrote, one request at a time: it looks an email up and
\* counts the ids upwards.
ASSUME FirstTablesAssumption ==
    \A T \in FirstTables :
        /\ IsFiniteSet(DOMAIN T)
        /\ \A j, k \in DOMAIN T :
              j < k => T[j].id < T[k].id /\ T[j].email # T[k].email

VARIABLES
    users,    \* the users table: document ids, in insertion order, to rows
    tokens,   \* the refresh_tokens table, in insertion order
    links,    \* the reset links that were mailed, in the order they were made
    req,      \* what each thread is doing
    epoch,    \* how many resets of each user id are complete
    edits     \* how many account operations were started (for MaxWork)

sVars == <<users, tokens, links, req, epoch, edits>>

TokenStates == {"live", "revoked"}

WorkLeft == Len(tokens) + Len(links) + edits < MaxWork

Idle == [pc |-> "idle", user |-> 0, loc |-> NoLocation, arg |-> 0,
         epoch |-> 0, late |-> FALSE]

(***************************************************************************)
(* The tables.  A query returns the first row that matches; an update and  *)
(* a removal touch every row that matches.                                 *)
(***************************************************************************)
FirstOf(D) == {users[k] : k \in {k \in D : \A j \in D : k <= j}}

get_user_by_email(e) == FirstOf({k \in DOMAIN users : users[k].email = e})
get_user_by_id(i) == FirstOf({k \in DOMAIN users : users[k].id = i})

update_user_record(i, changed) ==
    users' = [k \in DOMAIN users |->
                 IF users[k].id = i THEN changed[k] ELSE users[k]]

After(S) == IF S = {} THEN 1 ELSE Max(S) + 1

_next_id == After({users[k].id : k \in DOMAIN users})

revoke(t) == tokens' = [tokens EXCEPT ![t].state = "revoked"]

Sessions(i) == {t \in DOMAIN tokens : tokens[t].user = i}

revoke_all_for_user(i) ==
    tokens' = [t \in DOMAIN tokens |->
                  IF t \in Sessions(i) THEN [tokens[t] EXCEPT !.state = "revoked"]
                                       ELSE tokens[t]]

(***************************************************************************)
(* Thread r goes to state q.  "late" marks a request during which another  *)
(* request wrote: what it read before may be out of date.                  *)
(***************************************************************************)
Reads(r, q) == req' = [req EXCEPT ![r] = q]

Writes(r, q) ==
    req' = [x \in Requests |->
               CASE x = r -> q
                 [] x # r /\ req[x].pc = "idle" -> req[x]
                 [] OTHER -> [req[x] EXCEPT !.late = TRUE]]

At(r, pc) == req[r].pc = pc

(***************************************************************************)
(* Issuing: POST /auth/login, /auth/register and /auth/refresh all end     *)
(* with the insertion of a refresh token.                                  *)
(***************************************************************************)
authenticate_user(e, p) == {u \in get_user_by_email(e) : u.pw = p}

validate_login_location(u, l) == u.admin \/ l \in u.locs

issue_refresh_token(r) ==
    /\ At(r, "issue")
    /\ WorkLeft
    /\ tokens' = Append(tokens, [user |-> req[r].user, loc |-> req[r].loc,
                                 state |-> "live", parent |-> req[r].arg,
                                 epoch |-> req[r].epoch, late |-> req[r].late])
    /\ Writes(r, Idle)
    /\ UNCHANGED <<users, links, epoch, edits>>

auth_login(r, e, p, l) ==
    /\ At(r, "idle")
    /\ \E u \in authenticate_user(e, p) :
          /\ validate_login_location(u, l)
          /\ Reads(r, [Idle EXCEPT !.pc = "issue", !.user = u.id, !.loc = l,
                                   !.epoch = epoch[u.id]])
    /\ UNCHANGED <<users, tokens, links, epoch, edits>>

(***************************************************************************)
(* Rotation.  The three table calls of rotate_refresh_token before the new *)
(* pair: the stored row, the user, and the revocation of the old token.    *)
(***************************************************************************)
\* Mutant: the stored row is found but its "revoked" flag is not looked at.
RotateAnyToken(r, t) ==
    /\ At(r, "idle")
    /\ t \in DOMAIN tokens
    /\ Reads(r, [Idle EXCEPT !.pc = "user", !.arg = t, !.epoch = tokens[t].epoch,
                             !.late = tokens[t].late])
    /\ UNCHANGED <<users, tokens, links, epoch, edits>>

rotate_refresh_token(r, t) ==
    /\ At(r, "idle")
    /\ t \in DOMAIN tokens
    /\ tokens[t].state = "live"
    /\ Reads(r, [Idle EXCEPT !.pc = "user", !.arg = t, !.epoch = tokens[t].epoch,
                             !.late = tokens[t].late])
    /\ UNCHANGED <<users, tokens, links, epoch, edits>>

RotateUser(r) ==
    /\ At(r, "user")
    /\ LET t == tokens[req[r].arg]
           allowed == \E u \in get_user_by_id(t.user) :
                          t.loc = NoLocation \/ validate_login_location(u, t.loc)
       IN  Reads(r, IF allowed
                    THEN [req[r] EXCEPT !.pc = "rotate", !.user = t.user, !.loc = t.loc]
                    ELSE Idle)
    /\ UNCHANGED <<users, tokens, links, epoch, edits>>

RotateRevoke(r) ==
    /\ At(r, "rotate")
    /\ revoke(req[r].arg)
    /\ Writes(r, [req[r] EXCEPT !.pc = "issue"])
    /\ UNCHANGED <<users, links, epoch, edits>>

\* POST /auth/logout
revoke_refresh_token(r, t) ==
    /\ At(r, "idle")
    /\ t \in DOMAIN tokens
    /\ revoke(t)
    /\ Writes(r, Idle)
    /\ UNCHANGED <<users, links, epoch, edits>>

(***************************************************************************)
(* Password reset by mail.  A link is good for one user; the row holds the *)
(* digest of the newest link only.                                         *)
(***************************************************************************)
request_password_reset(r, e) ==
    /\ At(r, "idle")
    /\ WorkLeft
    /\ \E u \in get_user_by_email(e) :
          /\ links' = Append(links, [user |-> u.id, uses |-> 0])
          /\ Reads(r, [Idle EXCEPT !.pc = "link", !.arg = Len(links) + 1,
                                   !.user = u.id])
    /\ UNCHANGED <<users, tokens, epoch, edits>>

StoreLink(r) ==
    /\ At(r, "link")
    /\ update_user_record(req[r].user,
           [k \in DOMAIN users |-> [users[k] EXCEPT !.link = req[r].arg]])
    /\ Writes(r, Idle)
    /\ UNCHANGED <<tokens, links, epoch, edits>>

reset_password(r, k) ==
    /\ At(r, "idle")
    /\ k \in DOMAIN links
    /\ \E u \in get_user_by_id(links[k].user) : u.link = k
    /\ Reads(r, [Idle EXCEPT !.pc = "setpw", !.arg = k, !.user = links[k].user])
    /\ UNCHANGED <<users, tokens, links, epoch, edits>>

\* The link is spent; a use counts here only if nothing overlapped it.
Spend(r) == links' = [links EXCEPT ![req[r].arg].uses =
                         IF req[r].late THEN @ ELSE @ + 1]

\* Mutant: the digest of the used link stays in the row.
ResetKeepsLink(r, p) ==
    /\ At(r, "setpw")
    /\ update_user_record(req[r].user,
           [k \in DOMAIN users |-> [users[k] EXCEPT !.pw = p]])
    /\ Spend(r)
    /\ Writes(r, [req[r] EXCEPT !.pc = "revokeall"])
    /\ UNCHANGED <<tokens, epoch, edits>>

ResetSetPassword(r, p) ==
    /\ At(r, "setpw")
    /\ update_user_record(req[r].user,
           [k \in DOMAIN users |-> [users[k] EXCEPT !.pw = p, !.link = NoLink]])
    /\ Spend(r)
    /\ Writes(r, [req[r] EXCEPT !.pc = "revokeall"])
    /\ UNCHANGED <<tokens, epoch, edits>>

\* Mutant: the reset revokes the sessions of the user id only where the
\* session has a location.
RevokesLocated(r) ==
    /\ At(r, "revokeall")
    /\ tokens' = [t \in DOMAIN tokens |->
                     IF t \in Sessions(req[r].user) /\ tokens[t].loc # NoLocation
                     THEN [tokens[t] EXCEPT !.state = "revoked"] ELSE tokens[t]]
    /\ epoch' = [epoch EXCEPT ![req[r].user] = @ + 1]
    /\ Writes(r, Idle)
    /\ UNCHANGED <<users, links, edits>>

ResetRevokeAll(r) ==
    /\ At(r, "revokeall")
    /\ revoke_all_for_user(req[r].user)
    /\ epoch' = [epoch EXCEPT ![req[r].user] = @ + 1]
    /\ Writes(r, Idle)
    /\ UNCHANGED <<users, links, edits>>

(***************************************************************************)
(* Accounts.  register_user looks the email up, create_user reads the      *)
(* table to pick the next id and then inserts: three table calls.          *)
(* Self-registration goes on to issue a token pair, POST /users does not.  *)
(***************************************************************************)
StartsEdit(r) ==
    /\ At(r, "idle")
    /\ WorkLeft
    /\ edits' = edits + 1

\* The bearer of a valid access token is a user whose row still exists.
get_current_user == Range(users)

can_modify_user(i) == \E q \in get_current_user : q.id = i \/ q.admin

require_admin == \E q \in get_current_user : q.admin

\* Mutant: the email is not looked up first.
RegisterUnchecked(r, e, p, self) ==
    /\ StartsEdit(r)
    /\ Cardinality(DOMAIN users) < MaxUsers
    /\ self \/ require_admin
    /\ Reads(r, [Idle EXCEPT !.pc = "ids", !.arg = <<e, p, self>>])
    /\ UNCHANGED <<users, tokens, links, epoch>>

register_user(r, e, p, self) ==
    /\ StartsEdit(r)
    /\ Cardinality(DOMAIN users) < MaxUsers
    /\ self \/ require_admin
    /\ get_user_by_email(e) = {}
    /\ Reads(r, [Idle EXCEPT !.pc = "ids", !.arg = <<e, p, self>>])
    /\ UNCHANGED <<users, tokens, links, epoch>>

create_user(r) ==
    /\ At(r, "ids")
    /\ _next_id \in UserIds
    /\ Reads(r, [req[r] EXCEPT !.pc = "insert", !.user = _next_id])
    /\ UNCHANGED <<users, tokens, links, epoch, edits>>

InsertUser(r) ==
    /\ At(r, "insert")
    /\ users' = [k \in DOMAIN users \cup {After(DOMAIN users)} |->
                    IF k \in DOMAIN users THEN users[k]
                    ELSE [id |-> req[r].user, email |-> req[r].arg[1],
                          pw |-> req[r].arg[2], admin |-> FALSE, locs |-> {},
                          link |-> NoLink, late |-> req[r].late]]
    /\ Writes(r, IF req[r].arg[3]
                 THEN [req[r] EXCEPT !.pc = "issue", !.arg = NoToken,
                                     !.epoch = epoch[req[r].user]]
                 ELSE Idle)
    /\ UNCHANGED <<tokens, links, epoch, edits>>

\* PUT /users/{id}: an email is looked up before it is written ...
update_user(r, i, e) ==
    /\ StartsEdit(r)
    /\ can_modify_user(i)
    /\ \A u \in get_user_by_email(e) : u.id = i
    /\ Reads(r, [Idle EXCEPT !.pc = "email", !.user = i, !.arg = e])
    /\ UNCHANGED <<users, tokens, links, epoch>>

UpdateEmail(r) ==
    /\ At(r, "email")
    /\ update_user_record(req[r].user,
           [k \in DOMAIN users |->
               [users[k] EXCEPT !.email = req[r].arg, !.late = @ \/ req[r].late]])
    /\ Writes(r, Idle)
    /\ UNCHANGED <<tokens, links, epoch, edits>>

\* ... a password or a list of locations is written straight away.
UpdatePassword(r, i, p) ==
    /\ StartsEdit(r)
    /\ can_modify_user(i)
    /\ update_user_record(i, [k \in DOMAIN users |-> [users[k] EXCEPT !.pw = p]])
    /\ Writes(r, Idle)
    /\ UNCHANGED <<tokens, links, epoch>>

UpdateLocations(r, i, L) ==
    /\ StartsEdit(r)
    /\ require_admin
    /\ update_user_record(i, [k \in DOMAIN users |-> [users[k] EXCEPT !.locs = L]])
    /\ Writes(r, Idle)
    /\ UNCHANGED <<tokens, links, epoch>>

\* DELETE /users/{id} leaves the refresh tokens of the user in their table.
delete_user(r, i) ==
    /\ StartsEdit(r)
    /\ can_modify_user(i)
    /\ users' = [k \in {k \in DOMAIN users : users[k].id # i} |-> users[k]]
    /\ Writes(r, Idle)
    /\ UNCHANGED <<tokens, links, epoch>>

-----------------------------------------------------------------------------
SessionsInit ==
    /\ users \in FirstTables
    /\ tokens = <<>>
    /\ links = <<>>
    /\ req = [r \in Requests |-> Idle]
    /\ epoch = [i \in UserIds |-> 0]
    /\ edits = 0

AccountNext(r) ==
    \/ \E e \in Emails, p \in Passwords, self \in BOOLEAN : register_user(r, e, p, self)
    \/ create_user(r)
    \/ InsertUser(r)
    \/ \E u \in Range(users), e \in Emails : update_user(r, u.id, e)
    \/ UpdateEmail(r)
    \/ \E u \in Range(users), p \in Passwords : UpdatePassword(r, u.id, p)
    \/ \E u \in Range(users), L \in SUBSET Locations : UpdateLocations(r, u.id, L)
    \/ \E u \in Range(users) : delete_user(r, u.id)

SessionNext(r) ==
    \/ \E e \in Emails, p \in Passwords, l \in Locations : auth_login(r, e, p, l)
    \/ issue_refresh_token(r)
    \/ \E t \in 1..MaxWork : rotate_refresh_token(r, t)
    \/ RotateUser(r)
    \/ RotateRevoke(r)
    \/ \E t \in 1..MaxWork : revoke_refresh_token(r, t)
    \/ \E e \in Emails : request_password_reset(r, e)
    \/ StoreLink(r)
    \/ \E k \in 1..MaxWork : reset_password(r, k)
    \/ \E p \in Passwords : ResetSetPassword(r, p)
    \/ ResetRevokeAll(r)

SessionsNext == \E r \in Requests : AccountNext(r) \/ SessionNext(r)

SessionsSpec == SessionsInit /\ [][SessionsNext]_sVars

-----------------------------------------------------------------------------
(* A rotated token is dead before its successor exists: there is no moment *)
(* at which a refresh token and the one made from it are both usable       *)
(* (rotate_refresh_token revokes, then issues).                            *)
RotationRevokesParent ==
    \A t \in DOMAIN tokens :
        tokens[t].parent # NoToken => tokens[tokens[t].parent].state # "live"

(* A refresh token is exchanged once: two tokens descend from one only if  *)
(* one of the two rotations read the row while the other was writing it    *)
(* (the check and the revocation are separate table calls).                *)
RotatesOnce ==
    \A s, t \in DOMAIN tokens :
        (s # t /\ tokens[s].parent = tokens[t].parent /\ tokens[s].parent # NoToken)
            => tokens[s].late \/ tokens[t].late

(* Once a password reset is through, the sessions that were opened before  *)
(* it are over, except those a request issued that the reset overtook: the *)
(* new password and the revocations are two writes, and a rotation or a    *)
(* login that had read before them inserts its token after them.           *)
ResetEndsSessions ==
    \A t \in DOMAIN tokens :
        (tokens[t].state = "live" /\ ~tokens[t].late)
            => tokens[t].epoch = epoch[tokens[t].user]

(* A reset link sets a password once, unless two resets with it overlap.   *)
LinkIsSpent == \A k \in DOMAIN links : links[k].uses <= 1

(* Two accounts share an email or an id only if one of them was written by *)
(* a request that another one overlapped: create_user and update_user look *)
(* first and write later.                                                  *)
AccountsDistinct ==
    \A j, k \in DOMAIN users :
        (j # k /\ (users[j].email = users[k].email \/ users[j].id = users[k].id))
            => users[j].late \/ users[k].late
=============================================================================
