--------------------------- MODULE SessionsProofs ---------------------------
(***************************************************************************)
(* Proofs about Sessions, for any number of threads, users, tokens, reset  *)
(* links and account operations.                                           *)
(*                                                                         *)
(* A write marks every request that is in flight as late.  So a request    *)
(* that is not late still sees the tables as it read them, and the         *)
(* invariant says what it read: the token it rotates is usable and has no  *)
(* successor, the epoch it carries is its user's (Own), and the link it    *)
(* spends is unspent (Spent).  Of the tables it says that a token with a   *)
(* successor is dead (Parents), and the properties themselves.             *)
(*                                                                         *)
(* Of the accounts (Apart) it says the same: a request that is not late    *)
(* still sees what it looked up, a row that was not written late has the   *)
(* greatest id up to its place, and where two accounts share an email      *)
(* either the later one was written late or the other one was, in every    *)
(* row that has its id.                                                    *)
(***************************************************************************)
EXTENDS Sessions, RowsProofs, FiniteSetTheorems, TLAPS

Pcs == {"idle", "issue", "user", "rotate", "link", "setpw", "revokeall", "ids",
        "insert", "email"}
Args == Nat \cup Emails \cup (Emails \X Passwords \X BOOLEAN)
Request == [pc : Pcs, user : UserIds \cup {0}, loc : Locations \cup {NoLocation},
            arg : Args, epoch : Nat, late : BOOLEAN]
Token == [user : UserIds, loc : Locations \cup {NoLocation}, state : TokenStates,
          parent : Nat, epoch : Nat, late : BOOLEAN]
Link == [user : UserIds, uses : Nat]

\* What a request at pc knows of its user and its argument.
Fits(q, nt, nl) ==
    /\ q.pc \in {"issue", "rotate", "link", "setpw", "revokeall", "insert", "email"}
          => q.user \in UserIds
    /\ q.pc \in {"ids", "insert"} => q.arg \in Emails \X Passwords \X BOOLEAN
    /\ q.pc = "email" => q.arg \in Emails
    /\ q.pc \in {"user", "rotate"} => q.arg \in 1..nt
    /\ q.pc = "issue" => q.arg \in 0..nt
    /\ q.pc \in {"link", "setpw"} => q.arg \in 1..nl

UsersTyped == \A k \in DOMAIN users : users[k] \in UserRow
ReqTyped == /\ req \in [Requests -> Request]
            /\ \A r \in Requests : Fits(req[r], Len(tokens), Len(links))
Types == /\ UsersTyped /\ ReqTyped
         /\ tokens \in Seq(Token) /\ links \in Seq(Link)
         /\ epoch \in [UserIds -> Nat]

Rotates(q) == q.pc \in {"user", "rotate"}
Live(t) == tokens[t].state = "live"
Successor(t) == \E s \in 1..Len(tokens) : tokens[s].parent = t

\* What a request knows of the token it rotates and of its user's epoch.
Own(q) ==
    /\ q.pc = "issue" /\ q.arg # 0 => ~Live(q.arg)
    /\ ~q.late =>
          /\ Rotates(q) =>
                /\ Live(q.arg) /\ ~tokens[q.arg].late
                /\ ~Successor(q.arg)
                /\ q.epoch = epoch[tokens[q.arg].user]
          /\ q.pc = "rotate" => q.user = tokens[q.arg].user
          /\ q.pc = "issue" =>
                /\ q.epoch = epoch[q.user]
                /\ q.arg # 0 => ~Successor(q.arg)

Parents ==
    \A t \in 1..Len(tokens) :
        /\ tokens[t].parent \in 0..Len(tokens)
        /\ tokens[t].parent # 0 => ~Live(tokens[t].parent)

Once ==
    \A s, t \in 1..Len(tokens) :
        s # t /\ tokens[s].parent = tokens[t].parent /\ tokens[s].parent # 0
            => tokens[s].late \/ tokens[t].late

Ended ==
    \A t \in 1..Len(tokens) :
        Live(t) /\ ~tokens[t].late => tokens[t].epoch = epoch[tokens[t].user]

Owns == \A r \in Requests : Own(req[r])

Chains == Owns /\ Parents /\ Once /\ Ended

Stores(r, k) == req[r].pc = "link" /\ req[r].arg = k
Spends(r, k) == req[r].pc = "setpw" /\ req[r].arg = k
Linked(k) == \E j \in DOMAIN users : users[j].link = k

Spent ==
    /\ \A j \in DOMAIN users : users[j].link # 0 =>
          /\ users[j].link \in 1..Len(links)
          /\ users[j].id = links[users[j].link].user
    /\ \A r \in Requests, k \in 1..Len(links) : Stores(r, k) =>
          /\ req[r].user = links[k].user
          /\ ~Linked(k) /\ links[k].uses = 0
          /\ \A x \in Requests : ~Spends(x, k) /\ (Stores(x, k) => x = r)
    /\ \A r \in Requests, k \in 1..Len(links) : Spends(r, k) =>
          /\ req[r].user = links[k].user
          /\ links[k].uses # 0 => req[r].late
    /\ \A k \in 1..Len(links) :
          /\ links[k].uses \in {0, 1}
          /\ links[k].uses = 1 => ~Linked(k)

IInv == Types /\ Chains /\ Spent

-----------------------------------------------------------------------------
(* The other requests keep what they know; a write makes them late.        *)
Others(r) ==
    \A x \in Requests \ {r} :
        /\ req'[x].pc = req[x].pc /\ req'[x].user = req[x].user
        /\ req'[x].arg = req[x].arg /\ req'[x].epoch = req[x].epoch
        /\ ~req'[x].late => ~req[x].late

Overtaken(r) == \A x \in Requests \ {r} : req[x].pc # "idle" => req'[x].late

(* What the requests are after a step that reads.                          *)
LEMMA Read ==
    ASSUME req \in [Requests -> Request], NEW r \in Requests, NEW q \in Request, Reads(r, q)
    PROVE  req' \in [Requests -> Request] /\ req'[r] = q /\ Others(r)
  BY DEF Reads, Others

(* What the requests are after a step that writes.                         *)
LEMMA Written ==
    ASSUME req \in [Requests -> Request], NEW r \in Requests, NEW q \in Request, Writes(r, q)
    PROVE  req' \in [Requests -> Request] /\ req'[r] = q /\ Others(r) /\ Overtaken(r)
<1>1. \A x \in Requests : req[x] \in Request
  OBVIOUS
<1>2. \A v \in Request :
         LET w == [v EXCEPT !.late = TRUE] IN
         /\ w \in Request /\ w.late
         /\ w.pc = v.pc /\ w.user = v.user /\ w.arg = v.arg /\ w.epoch = v.epoch
  BY DEF Request
<1>3. \A x \in Requests \ {r} :
         IF req[x].pc = "idle" THEN req'[x] = req[x]
                               ELSE req'[x] = [req[x] EXCEPT !.late = TRUE]
  BY DEF Writes
<1>4. req' \in [Requests -> Request] /\ req'[r] = q
  BY <1>1, <1>2 DEF Writes
<1>5. ASSUME NEW x \in Requests \ {r}
      PROVE  /\ req'[x].pc = req[x].pc /\ req'[x].user = req[x].user
             /\ req'[x].arg = req[x].arg /\ req'[x].epoch = req[x].epoch
             /\ ~req'[x].late => ~req[x].late
             /\ req[x].pc # "idle" => req'[x].late
  BY <1>1, <1>2, <1>3
<1>6. QED
  BY <1>4, <1>5 DEF Others, Overtaken

(* A longer table of tokens or links takes nothing from a request.         *)
LEMMA StillFits ==
    ASSUME Types, NEW r \in Requests, req' \in [Requests -> Request], Others(r),
           Len(tokens') \in Nat, Len(links') \in Nat,
           Len(tokens) <= Len(tokens'), Len(links) <= Len(links'),
           Fits(req'[r], Len(tokens'), Len(links'))
    PROVE  ReqTyped'
<1>1. Len(tokens) \in Nat /\ Len(links) \in Nat
  BY DEF Types
<1>2. ASSUME NEW x \in Requests, x # r PROVE Fits(req'[x], Len(tokens'), Len(links'))
  <2>1. Fits(req[x], Len(tokens), Len(links))
    BY DEF Types, ReqTyped
  <2>2. req'[x].pc = req[x].pc /\ req'[x].user = req[x].user /\ req'[x].arg = req[x].arg
    BY <1>2 DEF Others
  <2>3. QED
    BY <1>1, <2>1, <2>2 DEF Fits
<1>3. QED
  BY <1>2 DEF ReqTyped

-----------------------------------------------------------------------------
(* A step that leaves the tokens keeps the chains, if its request does.    *)
LEMMA ChainsRest ==
    ASSUME Types, Chains, NEW r \in Requests, Others(r), Own(req[r])', UNCHANGED <<tokens, epoch>>
    PROVE  Chains'
<1>1. ASSUME NEW x \in Requests, x # r PROVE Own(req[x])'
  <2>1. /\ req'[x].pc = req[x].pc /\ req'[x].user = req[x].user
        /\ req'[x].arg = req[x].arg /\ req'[x].epoch = req[x].epoch
        /\ ~req'[x].late => ~req[x].late
    BY <1>1 DEF Others
  <2>2. QED
    BY <2>1 DEF Chains, Owns, Own, Rotates, Live, Successor
<1>2. QED
  BY <1>1 DEF Chains, Owns, Parents, Once, Ended, Live

\* Some tokens die, and nothing else of any of them changes.
Fewer ==
    /\ Len(tokens') = Len(tokens)
    /\ \A t \in 1..Len(tokens) :
          /\ tokens'[t].parent = tokens[t].parent /\ tokens'[t].user = tokens[t].user
          /\ tokens'[t].epoch = tokens[t].epoch /\ tokens'[t].late = tokens[t].late
          /\ Live(t)' => Live(t) /\ epoch'[tokens[t].user] = epoch[tokens[t].user]

(* A step by which tokens die keeps the chains, if its request does.       *)
LEMMA ChainsFewer ==
    ASSUME Types, Chains, NEW r \in Requests, Others(r), Overtaken(r), Own(req[r])', Fewer
    PROVE  Chains'
<1>0. Len(tokens) \in Nat
  BY DEF Types
<1>1. ASSUME NEW x \in Requests, x # r PROVE Own(req[x])'
  <2>1. /\ req'[x].pc = req[x].pc /\ req'[x].arg = req[x].arg
        /\ req[x].pc # "idle" => req'[x].late
    BY <1>1 DEF Others, Overtaken
  <2>2. CASE req[x].pc = "idle"
    BY <2>1, <2>2 DEF Own, Rotates
  <2>3. CASE req[x].pc # "idle"
    <3>1. req[x].pc = "issue" => req[x].arg \in 0..Len(tokens)
      BY DEF Types, ReqTyped, Fits
    <3>2. Own(req[x])
      BY DEF Chains, Owns
    <3>3. req'[x].late /\ (req[x].pc = "issue" /\ req[x].arg # 0 => ~Live(req[x].arg)')
      BY <1>0, <2>1, <2>3, <3>1, <3>2 DEF Own, Fewer, Live
    <3>4. QED
      BY <2>1, <3>3 DEF Own, Live
  <2>4. QED
    BY <2>2, <2>3
<1>2. Parents'
  BY <1>0 DEF Chains, Parents, Fewer, Live
<1>3. Once'
  BY <1>0 DEF Chains, Once, Fewer
<1>4. Ended'
  BY <1>0 DEF Chains, Ended, Fewer, Live
<1>5. QED
  BY <1>1, <1>2, <1>3, <1>4 DEF Chains, Owns

(* A step that issues a token keeps the chains.                            *)
LEMMA ChainsLonger ==
    ASSUME Types, Chains, NEW r \in Requests, Others(r), Overtaken(r),
           req[r].pc = "issue", req'[r].pc = "idle", epoch' = epoch,
           Len(tokens') = Len(tokens) + 1,
           \A t \in 1..Len(tokens) : tokens'[t] = tokens[t],
           tokens'[Len(tokens')].parent = req[r].arg,
           tokens'[Len(tokens')].user = req[r].user,
           tokens'[Len(tokens')].epoch = req[r].epoch,
           tokens'[Len(tokens')].late = req[r].late
    PROVE  Chains'
<1>0. Len(tokens) \in Nat /\ req[r].arg \in 0..Len(tokens)
  BY DEF Types, ReqTyped, Fits
<1>a. Own(req[r])
  BY DEF Chains, Owns
<1>1. ASSUME NEW x \in Requests PROVE Own(req[x])'
  <2>1. CASE x = r
    BY <2>1 DEF Own, Rotates
  <2>2. CASE x # r
    <3>1. /\ req'[x].pc = req[x].pc /\ req'[x].arg = req[x].arg
          /\ req[x].pc # "idle" => req'[x].late
      BY <2>2 DEF Others, Overtaken
    <3>2. CASE req[x].pc = "idle"
      BY <3>1, <3>2 DEF Own, Rotates
    <3>3. CASE req[x].pc # "idle"
      <4>1. req[x].pc = "issue" => req[x].arg \in 0..Len(tokens)
        BY DEF Types, ReqTyped, Fits
      <4>2. Own(req[x])
        BY DEF Chains, Owns
      <4>3. req'[x].late /\ (req[x].pc = "issue" /\ req[x].arg # 0 => ~Live(req[x].arg)')
        BY <1>0, <3>1, <3>3, <4>1, <4>2 DEF Own, Live
      <4>4. QED
        BY <3>1, <4>3 DEF Own, Live
    <3>4. QED
      BY <3>2, <3>3
  <2>3. QED
    BY <2>1, <2>2
<1>2. Parents'
  <2>1. \A t \in 1..Len(tokens) : /\ tokens'[t].parent \in 0..Len(tokens')
                                  /\ tokens'[t].parent = tokens[t].parent
    BY <1>0 DEF Chains, Parents
  <2>2. \A t \in 1..Len(tokens) : Live(t)' <=> Live(t)
    BY <1>0 DEF Live
  <2>3. req[r].arg # 0 => tokens'[req[r].arg].state # "live"
    BY <1>0, <1>a DEF Own, Live
  <2>4. QED
    BY <1>0, <2>1, <2>2, <2>3 DEF Chains, Parents, Live
<1>3. Once'
  BY <1>0, <1>a DEF Chains, Once, Own, Successor
<1>4. Ended'
  BY <1>0, <1>a DEF Chains, Ended, Own, Live
<1>5. QED
  BY <1>1, <1>2, <1>3, <1>4 DEF Chains, Owns

-----------------------------------------------------------------------------
\* The rows have no reset link that a row of the same user did not have.
NoNewLinks ==
    \A j \in DOMAIN users' : users'[j].link # 0 =>
        \E i \in DOMAIN users : users[i].link = users'[j].link /\ users[i].id = users'[j].id

(* A step that brings no link keeps what the requests know of the links,   *)
(* if its request is not about to store one.                               *)
LEMMA SpentRest ==
    ASSUME Types, Spent, NEW r \in Requests, Others(r), NoNewLinks, links' = links,
           req'[r].pc # "link",
           \A k \in 1..Len(links) : Spends(r, k)' =>
               /\ req'[r].user = links[k].user
               /\ Linked(k) \/ (Spends(r, k) /\ (req[r].late => req'[r].late))
    PROVE  Spent'
<1>1. \A x \in Requests, k \in 1..Len(links) :
         /\ Stores(x, k)' => x # r /\ Stores(x, k) /\ req'[x].user = req[x].user
         /\ Spends(x, k)' /\ x # r =>
               Spends(x, k) /\ req'[x].user = req[x].user /\ (req[x].late => req'[x].late)
  BY DEF Others, Stores, Spends
<1>2. \A k \in 1..Len(links) : Linked(k)' => Linked(k)
  BY DEF NoNewLinks, Linked, Types
<1>3. \A j \in DOMAIN users' : users'[j].link # 0 =>
         users'[j].link \in 1..Len(links) /\ users'[j].id = links[users'[j].link].user
  BY DEF NoNewLinks, Spent
<1>4. \A x \in Requests, k \in 1..Len(links) : Stores(x, k)' =>
         /\ req'[x].user = links[k].user
         /\ ~Linked(k)' /\ links[k].uses = 0
         /\ \A y \in Requests : ~Spends(y, k)' /\ (Stores(y, k)' => y = x)
  BY <1>1, <1>2 DEF Spent
<1>5. \A x \in Requests, k \in 1..Len(links) : Spends(x, k)' =>
         req'[x].user = links[k].user /\ (links[k].uses # 0 => req'[x].late)
  BY <1>1 DEF Spent
<1>6. \A k \in 1..Len(links) : links[k].uses \in {0, 1} /\ (links[k].uses = 1 => ~Linked(k)')
  BY <1>2 DEF Spent
<1>7. QED
  BY <1>3, <1>4, <1>5, <1>6 DEF Spent

(* A step that only reads keeps the invariant, if its request knows what   *)
(* it must.                                                                *)
LEMMA ReadStep ==
    ASSUME IInv, NEW r \in Requests, NEW q \in Request, Reads(r, q),
           UNCHANGED <<users, tokens, links, epoch>>,
           Fits(q, Len(tokens), Len(links)), Own(q), q.pc # "link",
           q.pc = "setpw" => Linked(q.arg) /\ q.user = links[q.arg].user
    PROVE  IInv'
<1>1. req' \in [Requests -> Request] /\ req'[r] = q /\ Others(r)
  BY Read DEF IInv, Types, ReqTyped
<1>2. Len(tokens) \in Nat /\ Len(links) \in Nat
  BY DEF IInv, Types
<1>3. ReqTyped'
  BY <1>1, <1>2, StillFits DEF IInv
<1>4. Types'
  BY <1>3 DEF IInv, Types, UsersTyped
<1>5. Own(req[r])'
  BY <1>1 DEF Own, Rotates, Live, Successor
<1>6. Chains'
  BY <1>1, <1>5, ChainsRest DEF IInv
<1>7. NoNewLinks
  BY DEF NoNewLinks
<1>8. \A k \in 1..Len(links) : Spends(r, k)' => req'[r].user = links[k].user /\ Linked(k)
  BY <1>1 DEF Spends
<1>9. Spent'
  BY <1>1, <1>7, <1>8, SpentRest DEF IInv
<1>10. QED
  BY <1>4, <1>6, <1>9 DEF IInv

(* So does a step that writes rows of users.                               *)
LEMMA UsersStep ==
    ASSUME IInv, NEW r \in Requests, NEW q \in Request, Writes(r, q),
           UNCHANGED <<tokens, links, epoch>>, UsersTyped', NoNewLinks,
           Fits(q, Len(tokens), Len(links)), Own(q), q.pc \notin {"link", "setpw"}
    PROVE  IInv'
<1>1. req' \in [Requests -> Request] /\ req'[r] = q /\ Others(r)
  BY Written DEF IInv, Types, ReqTyped
<1>2. Len(tokens) \in Nat /\ Len(links) \in Nat
  BY DEF IInv, Types
<1>3. ReqTyped'
  BY <1>1, <1>2, StillFits DEF IInv
<1>4. Types'
  BY <1>3 DEF IInv, Types
<1>5. Own(req[r])'
  BY <1>1 DEF Own, Rotates, Live, Successor
<1>6. Chains'
  BY <1>1, <1>5, ChainsRest DEF IInv
<1>7. Spent'
  BY <1>1, SpentRest DEF IInv, Spends
<1>8. QED
  BY <1>4, <1>6, <1>7 DEF IInv

-----------------------------------------------------------------------------
(* What an idle request is.                                                *)
LEMMA IdleRequest ==
    /\ Idle \in Request /\ Idle.pc = "idle" /\ Idle.arg = 0
    /\ \A nt, nl \in Nat : Fits(Idle, nt, nl)
    /\ Own(Idle)
  BY DEF Idle, Request, Pcs, Args, Fits, Own, Rotates

(* The row that a lookup returns is a row of the table.                    *)
LEMMA FirstIsRow ==
    ASSUME NEW D, D \subseteq DOMAIN users, NEW u \in FirstOf(D)
    PROVE  \E k \in D : u = users[k]
  BY DEF FirstOf

(* POST /auth/login keeps the invariant.                                   *)
LEMMA LoginStep ==
    ASSUME IInv, NEW r \in Requests, NEW e \in Emails, NEW p \in Passwords,
           NEW l \in Locations, auth_login(r, e, p, l)
    PROVE  IInv'
<1>1. PICK u \in authenticate_user(e, p) :
         Reads(r, [Idle EXCEPT !.pc = "issue", !.user = u.id, !.loc = l, !.epoch = epoch[u.id]])
  BY DEF auth_login
<1>2. u.id \in UserIds
  BY <1>1, FirstIsRow DEF authenticate_user, get_user_by_email, IInv, Types, UsersTyped, UserRow
<1> DEFINE q == [Idle EXCEPT !.pc = "issue", !.user = u.id, !.loc = l, !.epoch = epoch[u.id]]
<1>3. epoch[u.id] \in Nat /\ Len(tokens) \in Nat
  BY <1>2 DEF IInv, Types
<1>4. /\ q \in Request /\ q.pc = "issue" /\ q.arg = 0
      /\ q.user = u.id /\ q.epoch = epoch[u.id]
  BY <1>2, <1>3 DEF Idle, Request, Pcs, Args
<1> HIDE DEF q
<1>5. Fits(q, Len(tokens), Len(links))
  BY <1>2, <1>3, <1>4 DEF Fits
<1>6. Own(q)
  BY <1>4 DEF Own, Rotates
<1>7. QED
  BY <1>1, <1>4, <1>5, <1>6, ReadStep DEF auth_login, q

(* POST /auth/refresh: the read of the stored row.                         *)
LEMMA RotateStep ==
    ASSUME IInv, NEW r \in Requests, NEW t, rotate_refresh_token(r, t)
    PROVE  IInv'
<1> DEFINE q == [Idle EXCEPT !.pc = "user", !.arg = t, !.epoch = tokens[t].epoch,
                             !.late = tokens[t].late]
<1>1. /\ t \in 1..Len(tokens) /\ tokens[t] \in Token /\ Live(t) /\ Len(tokens) \in Nat
      /\ Reads(r, q)
  BY DEF rotate_refresh_token, IInv, Types, Live
<1>2. /\ q \in Request /\ q.pc = "user" /\ q.arg = t /\ q.epoch = tokens[t].epoch
      /\ q.late = tokens[t].late
  <2>1. t \in Nat /\ tokens[t].epoch \in Nat /\ tokens[t].late \in BOOLEAN
    BY <1>1 DEF Token
  <2>2. QED
    BY <2>1 DEF Idle, Request, Pcs, Args
<1> HIDE DEF q
<1>3. Fits(q, Len(tokens), Len(links))
  BY <1>1, <1>2 DEF Fits
<1>4. ~Successor(t)
  BY <1>1 DEF IInv, Chains, Parents, Successor, Live
<1>5. ~tokens[t].late => tokens[t].epoch = epoch[tokens[t].user]
  BY <1>1 DEF IInv, Chains, Ended
<1>6. Own(q)
  BY <1>1, <1>2, <1>4, <1>5 DEF Own, Rotates
<1>7. QED
  BY <1>1, <1>2, <1>3, <1>6, ReadStep DEF rotate_refresh_token

(* Its read of the user: the request goes on or is refused.                *)
LEMMA RotateUserStep ==
    ASSUME IInv, NEW r \in Requests, RotateUser(r)
    PROVE  IInv'
<1> DEFINE q == [req[r] EXCEPT !.pc = "rotate", !.user = tokens[req[r].arg].user,
                               !.loc = tokens[req[r].arg].loc]
<1>1. /\ (req[r].pc = "user" /\ Reads(r, q)) \/ Reads(r, Idle)
      /\ UNCHANGED <<users, tokens, links, epoch>>
  BY DEF RotateUser, At
<1>2. Len(tokens) \in Nat /\ Len(links) \in Nat /\ req[r] \in Request
      /\ (req[r].pc = "user" => req[r].arg \in 1..Len(tokens)) /\ Own(req[r])
  BY DEF IInv, Types, ReqTyped, Fits, Chains, Owns
<1>3. CASE Reads(r, Idle)
  BY <1>1, <1>2, <1>3, IdleRequest, ReadStep
<1>4. CASE req[r].pc = "user" /\ Reads(r, q)
  <2>1. tokens[req[r].arg] \in Token
    BY <1>2, <1>4 DEF IInv, Types
  <2>2. /\ q \in Request /\ q.pc = "rotate" /\ q.user = tokens[req[r].arg].user
        /\ q.arg = req[r].arg /\ q.epoch = req[r].epoch /\ q.late = req[r].late
    BY <1>2, <2>1 DEF Request, Pcs, Token
  <2> HIDE DEF q
  <2>3. Fits(q, Len(tokens), Len(links))
    BY <1>2, <1>4, <2>1, <2>2 DEF Fits, Token
  <2>4. Own(q)
    BY <1>2, <1>4, <2>2 DEF Own, Rotates
  <2>5. QED
    BY <1>1, <1>4, <2>2, <2>3, <2>4, ReadStep
<1>5. QED
  BY <1>1, <1>3, <1>4

(* A reset link is looked up: its row still holds it.                      *)
LEMMA ResetLookupStep ==
    ASSUME IInv, NEW r \in Requests, NEW k, reset_password(r, k)
    PROVE  IInv'
<1> DEFINE q == [Idle EXCEPT !.pc = "setpw", !.arg = k, !.user = links[k].user]
<1>1. k \in 1..Len(links) /\ links[k] \in Link /\ Len(links) \in Nat /\ Reads(r, q)
  BY DEF reset_password, IInv, Types
<1>2. Linked(k)
  BY FirstIsRow DEF reset_password, get_user_by_id, Linked
<1>3. q \in Request /\ q.pc = "setpw" /\ q.arg = k /\ q.user = links[k].user
  <2>1. k \in Nat /\ links[k].user \in UserIds
    BY <1>1 DEF Link
  <2>2. QED
    BY <2>1 DEF Idle, Request, Pcs, Args
<1> HIDE DEF q
<1>4. Fits(q, Len(tokens), Len(links)) /\ Own(q)
  BY <1>1, <1>3 DEF Fits, Own, Rotates, Link
<1>5. QED
  BY <1>1, <1>2, <1>3, <1>4, ReadStep DEF reset_password

(* The lookups of an account operation.                                    *)
LEMMA RegisterStep ==
    ASSUME IInv, NEW r \in Requests, NEW e \in Emails, NEW p \in Passwords,
           NEW self \in BOOLEAN, register_user(r, e, p, self)
    PROVE  IInv'
<1> DEFINE q == [Idle EXCEPT !.pc = "ids", !.arg = <<e, p, self>>]
<1>1. q \in Request /\ q.pc = "ids" /\ q.arg = <<e, p, self>>
  BY DEF Idle, Request, Pcs, Args
<1> HIDE DEF q
<1>2. Fits(q, Len(tokens), Len(links)) /\ Own(q)
  BY <1>1 DEF Fits, Own, Rotates
<1>3. Reads(r, q) /\ UNCHANGED <<users, tokens, links, epoch>>
  BY DEF register_user, q
<1>4. QED
  BY <1>1, <1>2, <1>3, ReadStep

(* The choice of the next id.                                              *)
LEMMA CreateStep ==
    ASSUME IInv, NEW r \in Requests, create_user(r)
    PROVE  IInv'
<1> DEFINE q == [req[r] EXCEPT !.pc = "insert", !.user = _next_id]
<1>1. /\ req[r] \in Request /\ req[r].pc = "ids" /\ _next_id \in UserIds
      /\ req[r].arg \in Emails \X Passwords \X BOOLEAN
  BY DEF IInv, Types, ReqTyped, Fits, create_user, At
<1>2. q \in Request /\ q.pc = "insert" /\ q.user \in UserIds /\ q.arg = req[r].arg
  BY <1>1 DEF Request, Pcs
<1>3. Reads(r, q) /\ UNCHANGED <<users, tokens, links, epoch>>
  BY DEF create_user
<1> HIDE DEF q
<1>4. Fits(q, Len(tokens), Len(links)) /\ Own(q)
  BY <1>1, <1>2 DEF Fits, Own, Rotates
<1>5. QED
  BY <1>2, <1>3, <1>4, ReadStep

(* The lookup of the email of an update.                                   *)
LEMMA UpdateLookupStep ==
    ASSUME IInv, NEW r \in Requests, NEW i \in UserIds, NEW e \in Emails,
           update_user(r, i, e)
    PROVE  IInv'
<1> DEFINE q == [Idle EXCEPT !.pc = "email", !.user = i, !.arg = e]
<1>1. q \in Request /\ q.pc = "email" /\ q.user = i /\ q.arg = e
  BY DEF Idle, Request, Pcs, Args
<1> HIDE DEF q
<1>2. Fits(q, Len(tokens), Len(links)) /\ Own(q)
  BY <1>1 DEF Fits, Own, Rotates
<1>3. Reads(r, q) /\ UNCHANGED <<users, tokens, links, epoch>>
  BY DEF update_user, q
<1>4. QED
  BY <1>1, <1>2, <1>3, ReadStep

-----------------------------------------------------------------------------
(* The insertion of a row: POST /auth/register goes on to issue a token.   *)
LEMMA InsertStep ==
    ASSUME IInv, NEW r \in Requests, InsertUser(r)
    PROVE  IInv'
<1> DEFINE q == [req[r] EXCEPT !.pc = "issue", !.arg = NoToken, !.epoch = epoch[req[r].user]]
           row == [id |-> req[r].user, email |-> req[r].arg[1], pw |-> req[r].arg[2],
                   admin |-> FALSE, locs |-> {}, link |-> NoLink, late |-> req[r].late]
<1>1. /\ req[r] \in Request /\ req[r].pc = "insert" /\ req[r].user \in UserIds
      /\ req[r].arg \in Emails \X Passwords \X BOOLEAN
      /\ Len(tokens) \in Nat /\ Len(links) \in Nat
  BY DEF IInv, Types, ReqTyped, Fits, InsertUser, At
<1>2. row \in UserRow /\ row.link = 0
  BY <1>1 DEF UserRow, NoLink, Request
<1>3. /\ users' = [k \in DOMAIN users \cup {After(DOMAIN users)} |->
                      IF k \in DOMAIN users THEN users[k] ELSE row]
      /\ Writes(r, IF req[r].arg[3] THEN q ELSE Idle)
      /\ UNCHANGED <<tokens, links, epoch>>
  BY DEF InsertUser
<1> HIDE DEF row
<1>4. UsersTyped' /\ NoNewLinks
  <2>1. UsersTyped'
    BY <1>2, <1>3 DEF UsersTyped, IInv, Types
  <2>2. NoNewLinks
    BY <1>2, <1>3 DEF NoNewLinks
  <2>3. QED
    BY <2>1, <2>2
<1>5. epoch[req[r].user] \in Nat
  BY <1>1 DEF IInv, Types
<1>6. /\ q \in Request /\ q.pc = "issue" /\ q.arg = 0 /\ q.user = req[r].user
      /\ q.epoch = epoch[req[r].user]
  BY <1>1, <1>5 DEF Request, Pcs, Args, NoToken
<1> HIDE DEF q
<1>7. Fits(q, Len(tokens), Len(links)) /\ Own(q)
  BY <1>1, <1>6 DEF Fits, Own, Rotates
<1>8. CASE Writes(r, q)
  BY <1>3, <1>4, <1>6, <1>7, <1>8, UsersStep
<1>9. CASE Writes(r, Idle)
  BY <1>1, <1>3, <1>4, <1>9, IdleRequest, UsersStep
<1>10. QED
  BY <1>3, <1>8, <1>9

(* Rows that keep their id and their link bring no new link.               *)
LEMMA SameLinks ==
    ASSUME DOMAIN users' \subseteq DOMAIN users,
           \A j \in DOMAIN users' : users'[j].link = users[j].link /\ users'[j].id = users[j].id
    PROVE  NoNewLinks
  BY DEF NoNewLinks

(* A request that ends by writing rows that keep their links.              *)
LEMMA RowsStep ==
    ASSUME IInv, NEW r \in Requests, Writes(r, Idle), UNCHANGED <<tokens, links, epoch>>,
           DOMAIN users' \subseteq DOMAIN users,
           \A j \in DOMAIN users' :
               /\ users'[j] \in UserRow
               /\ users'[j].link = users[j].link /\ users'[j].id = users[j].id
    PROVE  IInv'
<1>1. UsersTyped' /\ NoNewLinks
  BY SameLinks DEF UsersTyped, IInv, Types
<1>2. Len(tokens) \in Nat /\ Len(links) \in Nat
  BY DEF IInv, Types
<1>3. QED
  BY <1>1, <1>2, IdleRequest, UsersStep

(* PUT /users/{id}: the email, the password or the locations.              *)
LEMMA EmailStep ==
    ASSUME IInv, NEW r \in Requests, UpdateEmail(r)
    PROVE  IInv'
<1>1. /\ req[r] \in Request /\ req[r].arg \in Emails
      /\ \A k \in DOMAIN users : users[k] \in UserRow
  BY DEF IInv, Types, ReqTyped, UsersTyped, Fits, UpdateEmail, At
<1>2. req[r].late \in BOOLEAN
  BY <1>1 DEF Request
<1>3. users' = [k \in DOMAIN users |->
                   IF users[k].id = req[r].user
                   THEN [users[k] EXCEPT !.email = req[r].arg, !.late = @ \/ req[r].late]
                   ELSE users[k]]
  BY DEF UpdateEmail, update_user_record
<1>4. \A u \in UserRow :
         LET v == [u EXCEPT !.email = req[r].arg, !.late = @ \/ req[r].late] IN
         v \in UserRow /\ v.link = u.link /\ v.id = u.id
  BY <1>1, <1>2 DEF UserRow
<1>5. \A j \in DOMAIN users' :
         /\ users'[j] \in UserRow
         /\ users'[j].link = users[j].link /\ users'[j].id = users[j].id
  BY <1>1, <1>3, <1>4
<1>6. QED
  BY <1>3, <1>5, RowsStep DEF UpdateEmail

(* The password.                                                           *)
LEMMA PasswordStep ==
    ASSUME IInv, NEW r \in Requests, NEW i, NEW p \in Passwords, UpdatePassword(r, i, p)
    PROVE  IInv'
<1>1. \A k \in DOMAIN users : users[k] \in UserRow
  BY DEF IInv, Types, UsersTyped
<1>2. users' = [k \in DOMAIN users |->
                   IF users[k].id = i THEN [users[k] EXCEPT !.pw = p] ELSE users[k]]
  BY DEF UpdatePassword, update_user_record
<1>3. \A u \in UserRow : LET v == [u EXCEPT !.pw = p] IN
                         v \in UserRow /\ v.link = u.link /\ v.id = u.id
  BY DEF UserRow
<1>4. \A j \in DOMAIN users' :
         /\ users'[j] \in UserRow
         /\ users'[j].link = users[j].link /\ users'[j].id = users[j].id
  BY <1>1, <1>2, <1>3
<1>5. QED
  BY <1>2, <1>4, RowsStep DEF UpdatePassword

(* The locations.                                                          *)
LEMMA LocationsStep ==
    ASSUME IInv, NEW r \in Requests, NEW i, NEW L \in SUBSET Locations,
           UpdateLocations(r, i, L)
    PROVE  IInv'
<1>1. \A k \in DOMAIN users : users[k] \in UserRow
  BY DEF IInv, Types, UsersTyped
<1>2. users' = [k \in DOMAIN users |->
                   IF users[k].id = i THEN [users[k] EXCEPT !.locs = L] ELSE users[k]]
  BY DEF UpdateLocations, update_user_record
<1>3. \A u \in UserRow : LET v == [u EXCEPT !.locs = L] IN
                         v \in UserRow /\ v.link = u.link /\ v.id = u.id
  BY DEF UserRow
<1>4. \A j \in DOMAIN users' :
         /\ users'[j] \in UserRow
         /\ users'[j].link = users[j].link /\ users'[j].id = users[j].id
  BY <1>1, <1>2, <1>3
<1>5. QED
  BY <1>2, <1>4, RowsStep DEF UpdateLocations

(* DELETE /users/{id}.                                                     *)
LEMMA DeleteStep ==
    ASSUME IInv, NEW r \in Requests, NEW i, delete_user(r, i)
    PROVE  IInv'
<1>1. \A k \in DOMAIN users : users[k] \in UserRow
  BY DEF IInv, Types, UsersTyped
<1>2. users' = [k \in {k \in DOMAIN users : users[k].id # i} |-> users[k]]
  BY DEF delete_user
<1>3. QED
  BY <1>1, <1>2, RowsStep DEF delete_user

-----------------------------------------------------------------------------
(* Appending to a table of tokens or of links.                             *)
LEMMA Appended ==
    ASSUME NEW S, NEW s \in Seq(S), NEW e \in S
    PROVE  /\ Append(s, e) \in Seq(S) /\ Len(s) \in Nat
           /\ Len(Append(s, e)) = Len(s) + 1
           /\ Append(s, e)[Len(s) + 1] = e
           /\ \A i \in 1..Len(s) : Append(s, e)[i] = s[i]
  OBVIOUS

(* A step that writes no row and no link keeps what is known of the links. *)
LEMMA LinksLeft ==
    ASSUME IInv, NEW r \in Requests, Others(r), UNCHANGED <<users, links>>,
           req'[r].pc \notin {"link", "setpw"}
    PROVE  Spent'
<1>1. NoNewLinks
  BY DEF NoNewLinks
<1>2. QED
  BY <1>1, SpentRest DEF IInv, Spends

(* The insertion of a refresh token.                                       *)
LEMMA IssueStep ==
    ASSUME IInv, NEW r \in Requests, issue_refresh_token(r)
    PROVE  IInv'
<1> DEFINE t == [user |-> req[r].user, loc |-> req[r].loc, state |-> "live",
                 parent |-> req[r].arg, epoch |-> req[r].epoch, late |-> req[r].late]
<1>1. /\ req[r] \in Request /\ req[r].pc = "issue" /\ req[r].user \in UserIds
      /\ req[r].arg \in 0..Len(tokens) /\ tokens \in Seq(Token)
      /\ Len(tokens) \in Nat /\ Len(links) \in Nat
  BY DEF IInv, Types, ReqTyped, Fits, issue_refresh_token, At
<1>2. /\ t \in Token /\ t.parent = req[r].arg /\ t.user = req[r].user
      /\ t.epoch = req[r].epoch /\ t.late = req[r].late
  BY <1>1 DEF Token, Request, TokenStates
<1>3. tokens' = Append(tokens, t) /\ Writes(r, Idle) /\ UNCHANGED <<users, links, epoch>>
  BY DEF issue_refresh_token
<1> HIDE DEF t
<1>4. /\ tokens' \in Seq(Token) /\ Len(tokens') = Len(tokens) + 1 /\ tokens'[Len(tokens')] = t
      /\ \A i \in 1..Len(tokens) : tokens'[i] = tokens[i]
  BY <1>1, <1>2, <1>3, Appended
<1>5. req' \in [Requests -> Request] /\ req'[r] = Idle /\ Others(r) /\ Overtaken(r)
  BY <1>3, Written, IdleRequest DEF IInv, Types, ReqTyped
<1>6. req'[r].pc = "idle" /\ Fits(req'[r], Len(tokens'), Len(links'))
  BY <1>1, <1>3, <1>4, <1>5, IdleRequest
<1>7. ReqTyped'
  BY <1>1, <1>3, <1>4, <1>5, <1>6, StillFits DEF IInv
<1>8. Types'
  BY <1>3, <1>4, <1>7 DEF IInv, Types, UsersTyped
<1>9. Chains'
  BY <1>1, <1>2, <1>3, <1>4, <1>5, <1>6, ChainsLonger DEF IInv
<1>10. Spent'
  BY <1>3, <1>5, <1>6, LinksLeft
<1>11. QED
  BY <1>8, <1>9, <1>10 DEF IInv

(* A step by which tokens die keeps the invariant.                         *)
LEMMA DyingStep ==
    ASSUME IInv, NEW r \in Requests, NEW q \in Request, Writes(r, q),
           UNCHANGED <<users, links>>, tokens' \in Seq(Token), epoch' \in [UserIds -> Nat],
           Fewer, Fits(q, Len(tokens), Len(links)), q.pc \in {"idle", "issue"},
           q.pc = "issue" =>
               /\ q.arg # 0 => tokens'[q.arg].state # "live"
               /\ ~q.late => /\ q.epoch = epoch'[q.user]
                             /\ q.arg # 0 => ~Successor(q.arg)
    PROVE  IInv'
<1>1. req' \in [Requests -> Request] /\ req'[r] = q /\ Others(r) /\ Overtaken(r)
  BY Written DEF IInv, Types, ReqTyped
<1>2. /\ Len(tokens') = Len(tokens) /\ Len(links') = Len(links)
      /\ Len(tokens) \in Nat /\ Len(links) \in Nat
  BY DEF IInv, Types, Fewer
<1>3. ReqTyped'
  BY <1>1, <1>2, StillFits DEF IInv
<1>4. Types'
  BY <1>3 DEF IInv, Types, UsersTyped
<1>5. \A t : Successor(t)' <=> Successor(t)
  BY DEF Successor, Fewer
<1>6. Own(req[r])'
  BY <1>1, <1>5 DEF Own, Rotates, Live, Successor
<1>7. Chains'
  BY <1>1, <1>6, ChainsFewer DEF IInv
<1>8. Spent'
  BY <1>1, LinksLeft
<1>9. QED
  BY <1>4, <1>7, <1>8 DEF IInv

(* One token of a table dies.                                              *)
LEMMA Revoked ==
    ASSUME NEW s \in Seq(Token), NEW k \in 1..Len(s)
    PROVE  LET w == [s EXCEPT ![k].state = "revoked"] IN
           /\ w \in Seq(Token) /\ Len(w) = Len(s) /\ w[k].state = "revoked"
           /\ \A i \in 1..Len(s) :
                 /\ w[i].parent = s[i].parent /\ w[i].user = s[i].user
                 /\ w[i].epoch = s[i].epoch /\ w[i].late = s[i].late
                 /\ w[i].state = "live" => s[i].state = "live"
<1> DEFINE w == [s EXCEPT ![k].state = "revoked"]
<1>1. w = [i \in 1..Len(s) |-> IF i = k THEN [s[k] EXCEPT !.state = "revoked"] ELSE s[i]]
  OBVIOUS
<1>2. \A i \in 1..Len(s) : s[i] \in Token
  OBVIOUS
<1>3. \A x \in Token :
         LET y == [x EXCEPT !.state = "revoked"] IN
         /\ y \in Token /\ y.state = "revoked" /\ y.parent = x.parent /\ y.user = x.user
         /\ y.epoch = x.epoch /\ y.late = x.late
  BY DEF Token, TokenStates
<1>4. \A i \in 1..Len(s) : w[i] \in Token
  BY <1>1, <1>2, <1>3
<1>5. w \in Seq(Token) /\ Len(w) = Len(s)
  BY <1>1, <1>4
<1>6. QED
  BY <1>1, <1>2, <1>3, <1>5

(* The revocation of one token, as a step.                                 *)
LEMMA OneDies ==
    ASSUME tokens \in Seq(Token), NEW t \in 1..Len(tokens), revoke(t), epoch' = epoch
    PROVE  tokens' \in Seq(Token) /\ Fewer /\ ~Live(t)'
  BY Revoked DEF revoke, Fewer, Live

(* The revocation of the token that is rotated.                            *)
LEMMA RotateRevokeStep ==
    ASSUME IInv, NEW r \in Requests, RotateRevoke(r)
    PROVE  IInv'
<1> DEFINE q == [req[r] EXCEPT !.pc = "issue"]
<1>1. /\ req[r] \in Request /\ req[r].pc = "rotate" /\ req[r].user \in UserIds
      /\ req[r].arg \in 1..Len(tokens) /\ tokens \in Seq(Token) /\ Own(req[r])
      /\ Len(tokens) \in Nat /\ epoch \in [UserIds -> Nat]
  BY DEF IInv, Types, ReqTyped, Fits, RotateRevoke, At, Chains, Owns
<1>2. /\ revoke(req[r].arg) /\ Writes(r, q) /\ UNCHANGED <<users, links, epoch>>
  BY DEF RotateRevoke
<1>3. /\ q \in Request /\ q.pc = "issue" /\ q.user = req[r].user /\ q.arg = req[r].arg
      /\ q.epoch = req[r].epoch /\ q.late = req[r].late
  BY <1>1 DEF Request, Pcs
<1> HIDE DEF q
<1>4. tokens' \in Seq(Token) /\ Fewer /\ tokens'[req[r].arg].state # "live"
  BY <1>1, <1>2, Revoked DEF revoke, Fewer, Live
<1>5. Fits(q, Len(tokens), Len(links))
  BY <1>1, <1>3 DEF Fits
<1>6. ~q.late => q.epoch = epoch'[q.user] /\ ~Successor(q.arg)
  BY <1>1, <1>2, <1>3 DEF Own, Rotates
<1>7. QED
  BY <1>1, <1>2, <1>3, <1>4, <1>5, <1>6, DyingStep

(* POST /auth/logout.                                                      *)
LEMMA LogoutStep ==
    ASSUME IInv, NEW r \in Requests, NEW t, revoke_refresh_token(r, t)
    PROVE  IInv'
<1>1. /\ tokens \in Seq(Token) /\ t \in 1..Len(tokens) /\ revoke(t)
      /\ Len(tokens) \in Nat /\ Len(links) \in Nat
      /\ Writes(r, Idle) /\ UNCHANGED <<users, links, epoch>>
      /\ epoch' \in [UserIds -> Nat]
  BY DEF IInv, Types, revoke_refresh_token
<1>2. tokens' \in Seq(Token) /\ Fewer
  BY <1>1, OneDies
<1>3. QED
  BY <1>1, <1>2, IdleRequest, DyingStep

(* The second write of a reset: the sessions of the user end.              *)
LEMMA RevokeAllStep ==
    ASSUME IInv, NEW r \in Requests, ResetRevokeAll(r)
    PROVE  IInv'
<1> DEFINE u == req[r].user
<1>1. /\ u \in UserIds /\ tokens \in Seq(Token) /\ epoch \in [UserIds -> Nat]
      /\ Len(tokens) \in Nat /\ Len(links) \in Nat
      /\ \A t \in 1..Len(tokens) : tokens[t] \in Token
  BY DEF IInv, Types, ReqTyped, Fits, ResetRevokeAll, At
<1>2. /\ tokens' = [t \in 1..Len(tokens) |->
                       IF tokens[t].user = u THEN [tokens[t] EXCEPT !.state = "revoked"]
                                             ELSE tokens[t]]
      /\ epoch' = [epoch EXCEPT ![u] = @ + 1]
      /\ Writes(r, Idle) /\ UNCHANGED <<users, links>>
  BY <1>1 DEF ResetRevokeAll, revoke_all_for_user, Sessions
<1> HIDE DEF u
<1>3. \A x \in Token :
         LET y == [x EXCEPT !.state = "revoked"] IN
         /\ y \in Token /\ y.state = "revoked" /\ y.parent = x.parent /\ y.user = x.user
         /\ y.epoch = x.epoch /\ y.late = x.late
  BY DEF Token, TokenStates
<1>4. \A t \in 1..Len(tokens) : tokens'[t] \in Token
  BY <1>1, <1>2, <1>3
<1>5. tokens' \in Seq(Token) /\ Len(tokens') = Len(tokens)
  BY <1>1, <1>2, <1>4
<1>6. epoch' \in [UserIds -> Nat] /\ \A i \in UserIds : i # u => epoch'[i] = epoch[i]
  BY <1>1, <1>2
<1>7. ASSUME NEW t \in 1..Len(tokens)
      PROVE  /\ tokens'[t].parent = tokens[t].parent /\ tokens'[t].user = tokens[t].user
             /\ tokens'[t].epoch = tokens[t].epoch /\ tokens'[t].late = tokens[t].late
             /\ tokens'[t].state = "live" =>
                   tokens[t].state = "live" /\ epoch'[tokens[t].user] = epoch[tokens[t].user]
  <2>1. tokens[t] \in Token /\ tokens[t].user \in UserIds
    BY <1>1 DEF Token
  <2>2. QED
    BY <1>2, <1>3, <1>6, <2>1
<1>8. Fewer
  BY <1>5, <1>7 DEF Fewer, Live
<1>9. QED
  BY <1>1, <1>2, <1>5, <1>6, <1>8, IdleRequest, DyingStep

-----------------------------------------------------------------------------
(* A reset link is made: nobody knows it yet.                              *)
LEMMA LinkMadeStep ==
    ASSUME IInv, NEW r \in Requests, NEW e \in Emails, request_password_reset(r, e)
    PROVE  IInv'
<1>1. PICK u \in get_user_by_email(e) :
         /\ links' = Append(links, [user |-> u.id, uses |-> 0])
         /\ Reads(r, [Idle EXCEPT !.pc = "link", !.arg = Len(links) + 1, !.user = u.id])
  BY DEF request_password_reset
<1>2. u.id \in UserIds
  BY <1>1, FirstIsRow DEF get_user_by_email, IInv, Types, UsersTyped, UserRow
<1> DEFINE q == [Idle EXCEPT !.pc = "link", !.arg = Len(links) + 1, !.user = u.id]
           n == Len(links) + 1
           k == [user |-> u.id, uses |-> 0]
<1>3. /\ Types /\ Chains /\ Spent /\ links \in Seq(Link)
      /\ Len(links) \in Nat /\ Len(tokens) \in Nat
      /\ UNCHANGED <<users, tokens, epoch>>
  BY DEF IInv, Types, request_password_reset
<1>4. /\ q \in Request /\ q.pc = "link" /\ q.user = u.id /\ q.arg = n
  <2>1. n \in Nat
    BY <1>3
  <2>2. QED
    BY <1>2, <2>1 DEF Idle, Request, Pcs, Args
<1>5. k \in Link /\ k.user = u.id /\ k.uses = 0
  BY <1>2 DEF Link
<1>6. links' = Append(links, k) /\ Reads(r, q)
  BY <1>1
<1> HIDE DEF q, k
<1>7. /\ links' \in Seq(Link) /\ Len(links') = n /\ links'[n] = k
      /\ \A i \in 1..Len(links) : links'[i] = links[i]
  BY <1>3, <1>5, <1>6, Appended
<1>8. req' \in [Requests -> Request] /\ req'[r] = q /\ Others(r)
  BY <1>4, <1>6, Read DEF IInv, Types, ReqTyped
<1>9. Fits(req'[r], Len(tokens'), Len(links'))
  BY <1>2, <1>3, <1>4, <1>7, <1>8 DEF Fits
<1>10. ReqTyped'
  BY <1>3, <1>7, <1>8, <1>9, StillFits
<1>11. Types'
  BY <1>3, <1>7, <1>10 DEF Types, UsersTyped
<1>12. Own(req[r])'
  BY <1>4, <1>8 DEF Own, Rotates
<1>13. Chains'
  BY <1>3, <1>8, <1>12, ChainsRest
<1>14. \A x \in Requests : req[x].pc \in {"link", "setpw"} => req[x].arg \in 1..Len(links)
  BY <1>3 DEF Types, ReqTyped, Fits
<1>15. \A x \in Requests, i \in 1..n :
          /\ Stores(x, i)' =>
                \/ x = r /\ i = n
                \/ x # r /\ i # n /\ Stores(x, i) /\ req'[x].user = req[x].user
          /\ Spends(x, i)' =>
                /\ x # r /\ i # n /\ Spends(x, i)
                /\ req'[x].user = req[x].user /\ (~req'[x].late => ~req[x].late)
  <2>1. ASSUME NEW x \in Requests, x # r
        PROVE  /\ req'[x].pc = req[x].pc /\ req'[x].arg = req[x].arg
               /\ req'[x].user = req[x].user /\ (~req'[x].late => ~req[x].late)
    BY <1>8, <2>1 DEF Others
  <2>2. QED
    BY <1>3, <1>4, <1>8, <1>14, <2>1 DEF Stores, Spends
<1>16. \A i \in 1..n : Linked(i)' => Linked(i) /\ i # n
  BY <1>3 DEF Linked, Spent
<1>17. Spent'
  <2>1. \A j \in DOMAIN users' : users'[j].link # 0 =>
           users'[j].link \in 1..n /\ users'[j].id = links'[users'[j].link].user
    BY <1>3, <1>7 DEF Spent
  <2>2. \A x \in Requests, i \in 1..n : Stores(x, i)' =>
           /\ req'[x].user = links'[i].user
           /\ ~Linked(i)' /\ links'[i].uses = 0
           /\ \A y \in Requests : ~Spends(y, i)' /\ (Stores(y, i)' => y = x)
    BY <1>3, <1>4, <1>5, <1>7, <1>8, <1>15, <1>16 DEF Spent
  <2>3. \A x \in Requests, i \in 1..n : Spends(x, i)' =>
           req'[x].user = links'[i].user /\ (links'[i].uses # 0 => req'[x].late)
    BY <1>3, <1>7, <1>15 DEF Spent
  <2>4. \A i \in 1..n : links'[i].uses \in {0, 1} /\ (links'[i].uses = 1 => ~Linked(i)')
    BY <1>3, <1>5, <1>7, <1>16 DEF Spent
  <2>5. QED
    BY <1>7, <2>1, <2>2, <2>3, <2>4 DEF Spent
<1>18. QED
  BY <1>11, <1>13, <1>17 DEF IInv

(* The digest of a link goes to the rows of its user.                      *)
LEMMA LinkStoredStep ==
    ASSUME IInv, NEW r \in Requests, StoreLink(r)
    PROVE  IInv'
<1> DEFINE k == req[r].arg
<1>1. /\ req[r] \in Request /\ k \in 1..Len(links) /\ Stores(r, k)
      /\ Len(tokens) \in Nat /\ Len(links) \in Nat /\ Types /\ Chains /\ Spent
      /\ Writes(r, Idle) /\ UNCHANGED <<tokens, links, epoch>>
      /\ \A j \in DOMAIN users : users[j] \in UserRow
  BY DEF IInv, Types, UsersTyped, ReqTyped, Fits, StoreLink, At, Stores
<1>2. users' = [j \in DOMAIN users |->
                   IF users[j].id = req[r].user THEN [users[j] EXCEPT !.link = k] ELSE users[j]]
  BY DEF StoreLink, update_user_record
<1>3. /\ req[r].user = links[k].user /\ links[k].uses = 0
      /\ \A x \in Requests : ~Spends(x, k) /\ (Stores(x, k) => x = r)
  BY <1>1 DEF Spent
<1> HIDE DEF k
<1>4. req' \in [Requests -> Request] /\ req'[r] = Idle /\ Others(r)
  BY <1>1, Written, IdleRequest DEF Types, ReqTyped
<1>5. ReqTyped'
  BY <1>1, <1>4, StillFits, IdleRequest
<1>6. \A u \in UserRow : LET v == [u EXCEPT !.link = k] IN
                         v \in UserRow /\ v.link = k /\ v.id = u.id
  BY <1>1 DEF UserRow
<1>7. \A j \in DOMAIN users' :
         /\ users'[j] \in UserRow /\ users'[j].id = users[j].id
         /\ users'[j].link = IF users[j].id = req[r].user THEN k ELSE users[j].link
  BY <1>1, <1>2, <1>6
<1>8. Types'
  BY <1>1, <1>5, <1>7 DEF Types, UsersTyped
<1>9. Own(req[r])'
  BY <1>4, IdleRequest DEF Own, Rotates
<1>10. Chains'
  BY <1>1, <1>4, <1>9, ChainsRest
<1>11. \A x \in Requests, i \in 1..Len(links) :
          /\ Stores(x, i)' => x # r /\ i # k /\ Stores(x, i) /\ req'[x].user = req[x].user
          /\ Spends(x, i)' =>
                /\ x # r /\ i # k /\ Spends(x, i)
                /\ req'[x].user = req[x].user /\ (~req'[x].late => ~req[x].late)
  <2>1. ASSUME NEW x \in Requests, x # r
        PROVE  /\ req'[x].pc = req[x].pc /\ req'[x].arg = req[x].arg
               /\ req'[x].user = req[x].user /\ (~req'[x].late => ~req[x].late)
    BY <1>4, <2>1 DEF Others
  <2>2. QED
    BY <1>1, <1>3, <1>4, <2>1, IdleRequest DEF Stores, Spends
<1>12. \A i \in 1..Len(links) : Linked(i)' => Linked(i) \/ i = k
  BY <1>2, <1>7 DEF Linked
<1>13. Spent'
  <2>1. \A j \in DOMAIN users' : users'[j].link # 0 =>
           users'[j].link \in 1..Len(links) /\ users'[j].id = links[users'[j].link].user
    BY <1>1, <1>2, <1>3, <1>7 DEF Spent
  <2>2. \A x \in Requests, i \in 1..Len(links) : Stores(x, i)' =>
           /\ req'[x].user = links[i].user
           /\ ~Linked(i)' /\ links[i].uses = 0
           /\ \A y \in Requests : ~Spends(y, i)' /\ (Stores(y, i)' => y = x)
    BY <1>1, <1>11, <1>12 DEF Spent
  <2>3. \A x \in Requests, i \in 1..Len(links) : Spends(x, i)' =>
           req'[x].user = links[i].user /\ (links[i].uses # 0 => req'[x].late)
    BY <1>1, <1>11 DEF Spent
  <2>4. \A i \in 1..Len(links) : links[i].uses \in {0, 1} /\ (links[i].uses = 1 => ~Linked(i)')
    BY <1>1, <1>3, <1>12 DEF Spent
  <2>5. QED
    BY <1>1, <2>1, <2>2, <2>3, <2>4 DEF Spent
<1>14. QED
  BY <1>8, <1>10, <1>13 DEF IInv

Cleared(u, p) == [u EXCEPT !.pw = p, !.link = NoLink]

(* Counting a use of a link changes nothing else.                          *)
LEMMA UsesChanged ==
    ASSUME NEW s \in Seq(Link), NEW k \in 1..Len(s), NEW n \in Nat
    PROVE  LET w == [s EXCEPT ![k].uses = n] IN
           /\ w \in Seq(Link) /\ Len(w) = Len(s)
           /\ \A i \in 1..Len(s) :
                 w[i].user = s[i].user /\ w[i].uses = IF i = k THEN n ELSE s[i].uses
<1> DEFINE w == [s EXCEPT ![k].uses = n]
<1>1. w = [i \in 1..Len(s) |-> IF i = k THEN [s[k] EXCEPT !.uses = n] ELSE s[i]]
  OBVIOUS
<1>2. \A i \in 1..Len(s) : s[i] \in Link
  OBVIOUS
<1>3. \A x \in Link : LET y == [x EXCEPT !.uses = n] IN
                      y \in Link /\ y.user = x.user /\ y.uses = n
  BY DEF Link
<1>4. \A i \in 1..Len(s) : w[i] \in Link
  BY <1>1, <1>2, <1>3
<1>5. w \in Seq(Link) /\ Len(w) = Len(s)
  BY <1>1, <1>4
<1>6. QED
  BY <1>1, <1>2, <1>3, <1>5

(* A reset writes the password and clears the link.                        *)
LEMMA SpendStep ==
    ASSUME IInv, NEW r \in Requests, NEW p \in Passwords, ResetSetPassword(r, p)
    PROVE  IInv'
<1> DEFINE k == req[r].arg
           q == [req[r] EXCEPT !.pc = "revokeall"]
           n == IF req[r].late THEN links[k].uses ELSE links[k].uses + 1
<1>s. req[r].pc = "setpw" /\ Writes(r, q) /\ UNCHANGED <<tokens, epoch>>
  BY DEF ResetSetPassword, At
<1>1. /\ req[r] \in Request /\ k \in 1..Len(links) /\ Spends(r, k) /\ req[r].user \in UserIds
      /\ Len(tokens) \in Nat /\ Len(links) \in Nat /\ Types /\ Chains /\ Spent
      /\ links \in Seq(Link) /\ Writes(r, q) /\ UNCHANGED <<tokens, epoch>>
      /\ \A j \in DOMAIN users : users[j] \in UserRow
  BY <1>s DEF IInv, Types, UsersTyped, ReqTyped, Fits, Spends
<1>2. users' = [j \in DOMAIN users |->
                   IF users[j].id = req[r].user
                   THEN Cleared(users[j], p) ELSE users[j]]
  BY DEF ResetSetPassword, update_user_record, Cleared
<1>a. links' = [links EXCEPT ![k].uses = n]
  BY <1>1 DEF ResetSetPassword, Spend
<1>3. /\ req[r].user = links[k].user /\ links[k].uses \in {0, 1}
      /\ links[k].uses # 0 => req[r].late
      /\ \A x \in Requests : ~Stores(x, k)
  BY <1>1 DEF Spent
<1>4. n \in {0, 1} /\ n \in Nat /\ (~req[r].late => n = 1) /\ (n = 0 => links[k].uses = 0)
  BY <1>3
<1>5. q \in Request /\ q.pc = "revokeall" /\ q.user = req[r].user
  BY <1>1 DEF Request, Pcs
<1> HIDE DEF k, q, n
<1>6. /\ links' \in Seq(Link) /\ Len(links') = Len(links)
      /\ \A i \in 1..Len(links) :
            links'[i].user = links[i].user /\ links'[i].uses = IF i = k THEN n ELSE links[i].uses
  BY <1>1, <1>a, <1>4, UsesChanged
<1>7. req' \in [Requests -> Request] /\ req'[r] = q /\ Others(r) /\ Overtaken(r)
  BY <1>1, <1>5, Written DEF Types, ReqTyped
<1>8. Fits(req'[r], Len(tokens'), Len(links'))
  BY <1>1, <1>5, <1>7 DEF Fits
<1>9. ReqTyped'
  BY <1>1, <1>6, <1>7, <1>8, StillFits
<1>10. \A u \in UserRow :
          Cleared(u, p) \in UserRow /\ Cleared(u, p).link = 0 /\ Cleared(u, p).id = u.id
  BY DEF UserRow, NoLink, Cleared
<1>11. \A j \in DOMAIN users' :
          /\ users'[j] \in UserRow /\ users'[j].id = users[j].id
          /\ users'[j].link = IF users[j].id = req[r].user THEN 0 ELSE users[j].link
  BY <1>1, <1>2, <1>10
<1>b. \A j \in DOMAIN users' : users'[j].link # 0 =>
         /\ j \in DOMAIN users /\ users'[j].link = users[j].link
         /\ users[j].link # k /\ users'[j].id = users[j].id
  BY <1>1, <1>2, <1>3, <1>11 DEF Spent
<1>12. Types'
  BY <1>1, <1>6, <1>9, <1>11 DEF Types, UsersTyped
<1>13. Own(req[r])'
  BY <1>5, <1>7 DEF Own, Rotates
<1>14. Chains'
  BY <1>1, <1>7, <1>13, ChainsRest
<1>15. \A x \in Requests, i \in 1..Len(links) :
          /\ Stores(x, i)' => x # r /\ i # k /\ Stores(x, i) /\ req'[x].user = req[x].user
          /\ Spends(x, i)' =>
                x # r /\ Spends(x, i) /\ req'[x].user = req[x].user /\ req'[x].late
  <2>1. ASSUME NEW x \in Requests, x # r
        PROVE  /\ req'[x].pc = req[x].pc /\ req'[x].arg = req[x].arg
               /\ req'[x].user = req[x].user /\ (req[x].pc # "idle" => req'[x].late)
    BY <1>7, <2>1 DEF Others, Overtaken
  <2>2. QED
    BY <1>1, <1>3, <1>5, <1>7, <2>1 DEF Stores, Spends
<1>16. \A i \in 1..Len(links) : Linked(i)' => Linked(i) /\ i # k
  BY <1>1, <1>b DEF Linked
<1>17. Spent'
  <2>1. \A j \in DOMAIN users' : users'[j].link # 0 =>
           users'[j].link \in 1..Len(links) /\ users'[j].id = links'[users'[j].link].user
    BY <1>1, <1>6, <1>b DEF Spent
  <2>2. \A x \in Requests, i \in 1..Len(links) : Stores(x, i)' =>
           /\ req'[x].user = links'[i].user
           /\ ~Linked(i)' /\ links'[i].uses = 0
           /\ \A y \in Requests : ~Spends(y, i)' /\ (Stores(y, i)' => y = x)
    BY <1>1, <1>6, <1>15, <1>16 DEF Spent
  <2>3. \A x \in Requests, i \in 1..Len(links) : Spends(x, i)' =>
           req'[x].user = links'[i].user /\ (links'[i].uses # 0 => req'[x].late)
    BY <1>1, <1>6, <1>15 DEF Spent
  <2>4. \A i \in 1..Len(links) : links'[i].uses \in {0, 1} /\ (links'[i].uses = 1 => ~Linked(i)')
    BY <1>1, <1>4, <1>6, <1>16 DEF Spent
  <2>5. QED
    BY <1>6, <2>1, <2>2, <2>3, <2>4 DEF Spent
<1>18. QED
  BY <1>12, <1>14, <1>17 DEF IInv

-----------------------------------------------------------------------------
(* The first table of users satisfies the invariant.                       *)
LEMMA InitInv == SessionsInit => IInv
<1> SUFFICES ASSUME SessionsInit PROVE IInv
  OBVIOUS
<1>1. \A k \in DOMAIN users : users[k] \in UserRow /\ users[k].link = 0
  BY SessionsAssumption DEF SessionsInit, NoLink
<1>2. /\ tokens = <<>> /\ links = <<>> /\ Len(tokens) = 0 /\ Len(links) = 0
      /\ req = [r \in Requests |-> Idle] /\ epoch = [i \in UserIds |-> 0]
  BY DEF SessionsInit
<1>3. ReqTyped
  BY <1>2, IdleRequest DEF ReqTyped
<1>4. Types
  BY <1>1, <1>2, <1>3 DEF Types, UsersTyped
<1>5. Chains
  BY <1>2, IdleRequest DEF Chains, Owns, Parents, Once, Ended
<1>6. Spent
  BY <1>1, <1>2 DEF Spent
<1>7. QED
  BY <1>4, <1>5, <1>6 DEF IInv

(* An account operation keeps the invariant.                               *)
LEMMA AccountStep ==
    ASSUME IInv, NEW r \in Requests, AccountNext(r)
    PROVE  IInv'
<1>1. \A u \in Range(users) : u.id \in UserIds
  BY DEF Range, IInv, Types, UsersTyped, UserRow
<1>2. QED
  BY <1>1, RegisterStep, CreateStep, InsertStep, UpdateLookupStep, EmailStep,
     PasswordStep, LocationsStep, DeleteStep
     DEF AccountNext

(* So does a step of a login, a rotation, a logout or a reset.             *)
LEMMA SessionStep ==
    ASSUME IInv, NEW r \in Requests, SessionNext(r)
    PROVE  IInv'
  BY LoginStep, IssueStep, RotateStep, RotateUserStep, RotateRevokeStep, LogoutStep,
     LinkMadeStep, LinkStoredStep, ResetLookupStep, SpendStep, RevokeAllStep
     DEF SessionNext

(* The invariant holds in every state.                                     *)
THEOREM Invariant == SessionsSpec => []IInv
<1>1. ASSUME IInv, UNCHANGED sVars PROVE IInv'
  BY <1>1 DEF sVars, IInv, Types, UsersTyped, ReqTyped, Chains, Owns, Own, Rotates, Live,
              Successor, Parents, Once, Ended, Spent, Stores, Spends, Linked
<1>2. IInv /\ [SessionsNext]_sVars => IInv'
  BY <1>1, AccountStep, SessionStep DEF SessionsNext
<1>3. QED
  BY <1>2, InitInv, PTL DEF SessionsSpec

(* A token that was exchanged is dead before its successor exists: at no   *)
(* moment are a refresh token and the one made from it both usable         *)
(* (rotate_refresh_token revokes, then issues).                            *)
THEOREM ParentIsDead == SessionsSpec => []RotationRevokesParent
<1>1. IInv => RotationRevokesParent
  BY DEF IInv, Types, Chains, Parents, Live, RotationRevokesParent, NoToken
<1>2. QED
  BY <1>1, Invariant, PTL

(* Two tokens descend from one only if a rotation of it was overlapped by  *)
(* a write (the check and the revocation are separate table calls).        *)
THEOREM RotatedOnce == SessionsSpec => []RotatesOnce
<1>1. IInv => RotatesOnce
  BY DEF IInv, Types, Chains, Once, RotatesOnce, NoToken
<1>2. QED
  BY <1>1, Invariant, PTL

(* After a password reset no session of the user that was opened before it *)
(* is usable, unless the request that issued it was overlapped.            *)
THEOREM ResetIsFinal == SessionsSpec => []ResetEndsSessions
<1>1. IInv => ResetEndsSessions
  BY DEF IInv, Types, Chains, Ended, Live, ResetEndsSessions
<1>2. QED
  BY <1>1, Invariant, PTL

(* A reset link sets a password once, unless two resets with it overlap.   *)
THEOREM LinkSpentOnce == SessionsSpec => []LinkIsSpent
<1>1. IInv => LinkIsSpent
  BY DEF IInv, Types, Spent, LinkIsSpent
<1>2. QED
  BY <1>1, Invariant, PTL

-----------------------------------------------------------------------------
(* Accounts.                                                               *)
Numbered == DOMAIN users \subseteq Nat /\ \E b \in Nat : \A k \in DOMAIN users : k <= b

LaterIds ==
    \A j, k \in DOMAIN users :
        j < k /\ ~users[k].late => users[j].id < users[k].id

AllLate(i) == \A k \in DOMAIN users : users[k].id = i => users[k].late

EmailsApart ==
    \A j, k \in DOMAIN users :
        j < k /\ users[j].email = users[k].email /\ users[j].id # users[k].id
            => users[k].late \/ AllLate(users[j].id)

\* Place k is the first at which email e stands.
FirstWith(k, e) ==
    users[k].email = e /\ \A j \in DOMAIN users : users[j].email = e => k <= j

\* What a request that is not late has looked up.
Looked(q) ==
    ~q.late =>
        /\ q.pc \in {"ids", "insert"} => \A k \in DOMAIN users : users[k].email # q.arg[1]
        /\ q.pc = "insert" => \A k \in DOMAIN users : users[k].id < q.user
        /\ q.pc = "email" =>
              \A k \in DOMAIN users : FirstWith(k, q.arg) => users[k].id = q.user

AllLooked == \A r \in Requests : Looked(req[r])

Apart == Numbered /\ LaterIds /\ EmailsApart /\ AllLooked

(* A set of numbers with a bound has a greatest one.                       *)
LEMMA Greatest ==
    ASSUME NEW S, S \subseteq Nat, S # {}, NEW b \in Nat, \A x \in S : x <= b
    PROVE  Max(S) \in S /\ \A x \in S : x <= Max(S)
<1> DEFINE T == {n \in Nat : \A x \in S : x <= n}
<1>1. T \subseteq Nat /\ b \in T
  OBVIOUS
<1>2. PICK m \in T : \A n \in T : m <= n
  BY <1>1, LeastNumber
<1>3. m \in Nat /\ \A x \in S : x <= m
  OBVIOUS
<1>4. m \in S
  <2>1. SUFFICES ASSUME m \notin S PROVE FALSE
    OBVIOUS
  <2>2. \A x \in S : x \in Nat /\ x < m
    BY <1>3, <2>1
  <2>3. m # 0
    <3>1. PICK x \in S : TRUE
      OBVIOUS
    <3>2. x \in Nat /\ x < m
      BY <2>2
    <3>3. QED
      BY <3>2
  <2>4. m - 1 \in Nat /\ \A x \in S : x <= m - 1
    BY <1>3, <2>2, <2>3
  <2>5. m - 1 \in T
    BY <2>4
  <2>6. QED
    BY <1>2, <1>3, <2>5
<1> HIDE DEF T
<1>5. \E x \in S : \A y \in S : x >= y
  BY <1>3, <1>4
<1>6. Max(S) \in S /\ \A y \in S : Max(S) >= y
  BY <1>5 DEF Max
<1>7. QED
  BY <1>6

(* After counts on: it is greater than every number there was (_next_id).  *)
LEMMA AfterIsGreater ==
    ASSUME NEW S, S \subseteq Nat, NEW b \in Nat, \A x \in S : x <= b
    PROVE  After(S) \in Nat /\ \A x \in S : x < After(S)
<1>1. CASE S = {}
  BY <1>1 DEF After
<1>2. CASE S # {}
  <2>1. Max(S) \in S /\ \A x \in S : x <= Max(S)
    BY <1>2, Greatest
  <2>2. After(S) = Max(S) + 1
    BY <1>2 DEF After
  <2>3. /\ Max(S) \in Nat
        /\ \A x \in S : x \in Nat /\ x <= Max(S)
    BY <2>1
  <2>4. \A m \in Nat, x \in Nat : x <= m => x < m + 1
    OBVIOUS
  <2>5. QED
    BY <2>2, <2>3, <2>4
<1>3. QED
  BY <1>1, <1>2

(* What a step of r leaves of the other requests, whatever r becomes.      *)
LEMMA AfterRead ==
    ASSUME ReqTyped, NEW r \in Requests, NEW q, Reads(r, q)
    PROVE  req'[r] = q /\ Others(r)
  BY DEF ReqTyped, Reads, Others

LEMMA AfterWrite ==
    ASSUME ReqTyped, NEW r \in Requests, NEW q, Writes(r, q)
    PROVE  req'[r] = q /\ Others(r) /\ Overtaken(r)
<1>1. \A v \in Request :
         LET w == [v EXCEPT !.late = TRUE] IN
         w.late /\ w.pc = v.pc /\ w.user = v.user /\ w.arg = v.arg /\ w.epoch = v.epoch
  BY DEF Request
<1>2. \A x \in Requests \ {r} :
         IF req[x].pc = "idle" THEN req'[x] = req[x]
                               ELSE req'[x] = [req[x] EXCEPT !.late = TRUE]
  BY DEF Writes
<1>3. \A x \in Requests : req[x] \in Request
  BY DEF ReqTyped
<1>4. req'[r] = q
  BY DEF Writes
<1>5. ASSUME NEW x \in Requests \ {r}
      PROVE  /\ req'[x].pc = req[x].pc /\ req'[x].user = req[x].user
             /\ req'[x].arg = req[x].arg /\ req'[x].epoch = req[x].epoch
             /\ ~req'[x].late => ~req[x].late
             /\ req[x].pc # "idle" => req'[x].late
  BY <1>1, <1>2, <1>3
<1>6. QED
  BY <1>4, <1>5 DEF Others, Overtaken

\* A request that holds nothing that was looked up among the accounts.
Elsewhere(q) == q.pc \notin {"ids", "insert", "email"}

\* The rows keep what tells accounts apart.
SameAccounts ==
    /\ DOMAIN users' = DOMAIN users
    /\ \A k \in DOMAIN users :
          /\ users'[k].id = users[k].id /\ users'[k].email = users[k].email
          /\ users'[k].late = users[k].late

(* A step that keeps every id and email keeps the accounts apart.          *)
LEMMA ApartSame ==
    ASSUME Apart, NEW r \in Requests, Others(r), SameAccounts, Looked(req[r])'
    PROVE  Apart'
<1>1. Numbered' /\ LaterIds'
  BY DEF Apart, Numbered, LaterIds, SameAccounts
<1>2. EmailsApart'
  BY DEF Apart, EmailsApart, AllLate, SameAccounts
<1>3. ASSUME NEW x \in Requests, x # r PROVE Looked(req[x])'
  <2>1. /\ req'[x].pc = req[x].pc /\ req'[x].user = req[x].user
        /\ req'[x].arg = req[x].arg /\ (~req'[x].late => ~req[x].late)
    BY <1>3 DEF Others
  <2>2. Looked(req[x])
    BY DEF Apart, AllLooked
  <2>3. \A e : \A k \in DOMAIN users : FirstWith(k, e)' <=> FirstWith(k, e)
    BY DEF SameAccounts, FirstWith
  <2>4. QED
    BY <2>1, <2>2, <2>3 DEF Looked, SameAccounts
<1>4. AllLooked'
  BY <1>3 DEF AllLooked
<1>5. QED
  BY <1>1, <1>2, <1>4 DEF Apart

(* After a write nobody relies on what was looked up before.               *)
LEMMA NobodyLooks ==
    ASSUME NEW r \in Requests, Others(r), Overtaken(r), Elsewhere(req'[r])
    PROVE  AllLooked'
<1>1. ASSUME NEW x \in Requests PROVE Looked(req[x])'
  <2>1. CASE x = r
    BY <2>1 DEF Looked, Elsewhere
  <2>2. CASE x # r
    BY <2>2 DEF Others, Overtaken, Looked
  <2>3. QED
    BY <2>1, <2>2
<1>2. QED
  BY <1>1 DEF AllLooked

-----------------------------------------------------------------------------
(* One lemma per kind of action.                                           *)

(* A step after which its request has looked nothing up among the accounts,*)
(* and which keeps ids and emails: all of sessions, and of links.          *)
LEMMA QuietStep ==
    ASSUME Apart, NEW r \in Requests, Others(r), SameAccounts, Elsewhere(req'[r])
    PROVE  Apart'
<1>1. Looked(req[r])'
  BY DEF Looked, Elsewhere
<1>2. QED
  BY <1>1, ApartSame

(* Logins, rotations and logouts; the row of a link is found, or the       *)
(* sessions of a user end.                                                 *)
LEMMA TokenSteps ==
    ASSUME IInv, Apart, NEW r \in Requests,
           \/ \E e, p, l : auth_login(r, e, p, l)
           \/ issue_refresh_token(r)
           \/ \E t : rotate_refresh_token(r, t) \/ revoke_refresh_token(r, t)
           \/ RotateUser(r) \/ RotateRevoke(r)
           \/ \E e : request_password_reset(r, e)
           \/ \E k : reset_password(r, k)
           \/ ResetRevokeAll(r)
    PROVE  Apart'
<1>1. ReqTyped /\ req[r] \in Request
  BY DEF IInv, Types, ReqTyped
<1>2. ASSUME users' = users, NEW q, Elsewhere(q), Reads(r, q) \/ Writes(r, q)
      PROVE  Apart'
  <2>1. req'[r] = q /\ Others(r)
    BY <1>1, <1>2, AfterRead, AfterWrite
  <2>2. SameAccounts
    BY <1>2 DEF SameAccounts
  <2>3. QED
    BY <1>2, <2>1, <2>2, QuietStep
<1>3. Elsewhere(Idle)
  BY DEF Elsewhere, Idle
<1>4. CASE \E e, p, l : auth_login(r, e, p, l)
  <2>1. PICK e, p, l : auth_login(r, e, p, l)
    BY <1>4
  <2>2. PICK u \in authenticate_user(e, p) :
           Reads(r, [Idle EXCEPT !.pc = "issue", !.user = u.id, !.loc = l,
                                 !.epoch = epoch[u.id]])
    BY <2>1 DEF auth_login
  <2>3. Elsewhere([Idle EXCEPT !.pc = "issue", !.user = u.id, !.loc = l,
                               !.epoch = epoch[u.id]])
    BY DEF Elsewhere, Idle
  <2>4. QED
    BY <1>2, <2>1, <2>2, <2>3 DEF auth_login
<1>5. CASE issue_refresh_token(r)
  BY <1>2, <1>3, <1>5 DEF issue_refresh_token
<1>6. CASE \E t : rotate_refresh_token(r, t)
  <2>1. PICK t : rotate_refresh_token(r, t)
    BY <1>6
  <2>2. Elsewhere([Idle EXCEPT !.pc = "user", !.arg = t, !.epoch = tokens[t].epoch,
                               !.late = tokens[t].late])
    BY DEF Elsewhere, Idle
  <2>3. QED
    BY <1>2, <2>1, <2>2 DEF rotate_refresh_token
<1>7. CASE \E t : revoke_refresh_token(r, t)
  BY <1>2, <1>3, <1>7 DEF revoke_refresh_token
<1>8. CASE RotateUser(r)
  <2>1. PICK l, i : \/ Reads(r, [req[r] EXCEPT !.pc = "rotate", !.user = i, !.loc = l])
                    \/ Reads(r, Idle)
    BY <1>8 DEF RotateUser
  <2>2. Elsewhere([req[r] EXCEPT !.pc = "rotate", !.user = i, !.loc = l])
    BY <1>1 DEF Elsewhere, Request
  <2>3. QED
    BY <1>2, <1>3, <1>8, <2>1, <2>2 DEF RotateUser
<1>9. CASE RotateRevoke(r)
  <2>1. Elsewhere([req[r] EXCEPT !.pc = "issue"])
    BY <1>1 DEF Elsewhere, Request
  <2>2. QED
    BY <1>2, <1>9, <2>1 DEF RotateRevoke
<1>10. CASE \E e : request_password_reset(r, e)
  <2>1. PICK e : request_password_reset(r, e)
    BY <1>10
  <2>2. PICK u \in get_user_by_email(e) :
           Reads(r, [Idle EXCEPT !.pc = "link", !.arg = Len(links) + 1, !.user = u.id])
    BY <2>1 DEF request_password_reset
  <2>3. Elsewhere([Idle EXCEPT !.pc = "link", !.arg = Len(links) + 1, !.user = u.id])
    BY DEF Elsewhere, Idle
  <2>4. QED
    BY <1>2, <2>1, <2>2, <2>3 DEF request_password_reset
<1>11. CASE \E k : reset_password(r, k)
  <2>1. PICK k : reset_password(r, k)
    BY <1>11
  <2>2. Elsewhere([Idle EXCEPT !.pc = "setpw", !.arg = k, !.user = links[k].user])
    BY DEF Elsewhere, Idle
  <2>3. QED
    BY <1>2, <2>1, <2>2 DEF reset_password
<1>12. CASE ResetRevokeAll(r)
  BY <1>2, <1>3, <1>12 DEF ResetRevokeAll
<1>13. QED
  BY <1>4, <1>5, <1>6, <1>7, <1>8, <1>9, <1>10, <1>11, <1>12

(* Links, passwords and locations are written into rows that keep their id *)
(* and their email.                                                        *)
LEMMA RowSteps ==
    ASSUME IInv, Apart, NEW r \in Requests,
           \/ StoreLink(r)
           \/ \E p : ResetSetPassword(r, p)
           \/ \E i, p : UpdatePassword(r, i, p)
           \/ \E i, L : UpdateLocations(r, i, L)
    PROVE  Apart'
<1>1. /\ ReqTyped /\ req[r] \in Request
      /\ \A k \in DOMAIN users : users[k] \in UserRow
  BY DEF IInv, Types, ReqTyped, UsersTyped
<1>2. ASSUME SameAccounts, NEW q, Elsewhere(q), Writes(r, q)
      PROVE  Apart'
  BY <1>1, <1>2, AfterWrite, QuietStep
<1>3. ASSUME NEW i, NEW changed, update_user_record(i, changed),
             \A k \in DOMAIN users :
                 /\ changed[k].id = users[k].id /\ changed[k].email = users[k].email
                 /\ changed[k].late = users[k].late
      PROVE  SameAccounts
  BY <1>3 DEF update_user_record, SameAccounts
<1>4. Elsewhere(Idle)
  BY DEF Elsewhere, Idle
<1>5. CASE StoreLink(r)
  <2> DEFINE new == [k \in DOMAIN users |-> [users[k] EXCEPT !.link = req[r].arg]]
  <2>1. \A k \in DOMAIN users :
           /\ new[k].id = users[k].id /\ new[k].email = users[k].email
           /\ new[k].late = users[k].late
    BY <1>1 DEF UserRow
  <2>2. update_user_record(req[r].user, new) /\ Writes(r, Idle)
    BY <1>5 DEF StoreLink
  <2>3. QED
    BY <1>2, <1>3, <1>4, <2>1, <2>2
<1>6. CASE \E p : ResetSetPassword(r, p)
  <2>1. PICK p : ResetSetPassword(r, p)
    BY <1>6
  <2> DEFINE new == [k \in DOMAIN users |-> [users[k] EXCEPT !.pw = p, !.link = NoLink]]
  <2>2. \A k \in DOMAIN users :
           /\ new[k].id = users[k].id /\ new[k].email = users[k].email
           /\ new[k].late = users[k].late
    BY <1>1 DEF UserRow
  <2>3. /\ update_user_record(req[r].user, new)
        /\ Writes(r, [req[r] EXCEPT !.pc = "revokeall"])
    BY <2>1 DEF ResetSetPassword
  <2>4. Elsewhere([req[r] EXCEPT !.pc = "revokeall"])
    BY <1>1 DEF Elsewhere, Request
  <2>5. QED
    BY <1>2, <1>3, <2>2, <2>3, <2>4
<1>7. CASE \E i, p : UpdatePassword(r, i, p)
  <2>1. PICK i, p : UpdatePassword(r, i, p)
    BY <1>7
  <2> DEFINE new == [k \in DOMAIN users |-> [users[k] EXCEPT !.pw = p]]
  <2>2. \A k \in DOMAIN users :
           /\ new[k].id = users[k].id /\ new[k].email = users[k].email
           /\ new[k].late = users[k].late
    BY <1>1 DEF UserRow
  <2>3. update_user_record(i, new) /\ Writes(r, Idle)
    BY <2>1 DEF UpdatePassword
  <2>4. QED
    BY <1>2, <1>3, <1>4, <2>2, <2>3
<1>8. CASE \E i, L : UpdateLocations(r, i, L)
  <2>1. PICK i, L : UpdateLocations(r, i, L)
    BY <1>8
  <2> DEFINE new == [k \in DOMAIN users |-> [users[k] EXCEPT !.locs = L]]
  <2>2. \A k \in DOMAIN users :
           /\ new[k].id = users[k].id /\ new[k].email = users[k].email
           /\ new[k].late = users[k].late
    BY <1>1 DEF UserRow
  <2>3. update_user_record(i, new) /\ Writes(r, Idle)
    BY <2>1 DEF UpdateLocations
  <2>4. QED
    BY <1>2, <1>3, <1>4, <2>2, <2>3
<1>9. QED
  BY <1>5, <1>6, <1>7, <1>8

(* A lookup that finds nothing has looked at every row.                    *)
LEMMA NoneWithEmail ==
    ASSUME Numbered, NEW e, get_user_by_email(e) = {}
    PROVE  \A k \in DOMAIN users : users[k].email # e
<1> DEFINE D == {k \in DOMAIN users : users[k].email = e}
<1>1. SUFFICES ASSUME D # {} PROVE FALSE
  OBVIOUS
<1>2. D \subseteq Nat
  BY DEF Numbered
<1>3. \E k \in D : \A j \in D : k <= j
  BY <1>1, <1>2, LeastNumber
<1>4. FirstOf(D) # {}
  BY <1>3 DEF FirstOf
<1>5. QED
  BY <1>4 DEF get_user_by_email

(* register_user, create_user and update_user look at the table.           *)
LEMMA LookSteps ==
    ASSUME IInv, Apart, NEW r \in Requests,
           \/ \E e \in Emails, p \in Passwords, self \in BOOLEAN : register_user(r, e, p, self)
           \/ create_user(r)
           \/ \E i \in UserIds, e \in Emails : update_user(r, i, e)
    PROVE  Apart'
<1>1. /\ ReqTyped /\ req[r] \in Request
      /\ \A k \in DOMAIN users : users[k] \in UserRow
  BY DEF IInv, Types, ReqTyped, UsersTyped
<1>2. ASSUME users' = users, NEW q, Reads(r, q), Looked(q)
      PROVE  Apart'
  <2>1. req'[r] = q /\ Others(r)
    BY <1>1, <1>2, AfterRead
  <2>2. SameAccounts
    BY <1>2 DEF SameAccounts
  <2>3. Looked(req[r])'
    BY <1>2, <2>1 DEF Looked, FirstWith
  <2>4. QED
    BY <2>1, <2>2, <2>3, ApartSame
<1>3. CASE \E e \in Emails, p \in Passwords, self \in BOOLEAN : register_user(r, e, p, self)
  <2>1. PICK e \in Emails, p \in Passwords, self \in BOOLEAN : register_user(r, e, p, self)
    BY <1>3
  <2> DEFINE q == [Idle EXCEPT !.pc = "ids", !.arg = <<e, p, self>>]
  <2>2. \A k \in DOMAIN users : users[k].email # e
    BY <2>1, NoneWithEmail DEF register_user, Apart
  <2>3. q.pc = "ids" /\ q.arg[1] = e
    BY DEF Idle
  <2>4. users' = users /\ Reads(r, q)
    BY <2>1 DEF register_user
  <2> HIDE DEF q
  <2>5. Looked(q)
    BY <2>2, <2>3 DEF Looked
  <2>6. QED
    BY <1>2, <2>4, <2>5
<1>4. CASE create_user(r)
  <2> DEFINE q == [req[r] EXCEPT !.pc = "insert", !.user = _next_id]
             S == {users[k].id : k \in DOMAIN users}
  <2>1. S \subseteq Nat /\ MaxWork + 1 \in Nat /\ \A i \in S : i <= MaxWork + 1
    BY <1>1, SessionsAssumption DEF UserRow, UserIds
  <2>2. \A i \in S : i < After(S)
    BY <2>1, AfterIsGreater
  <2>3. \A k \in DOMAIN users : users[k].id < _next_id
    BY <2>2 DEF _next_id
  <2>4. /\ q.pc = "insert" /\ q.user = _next_id
        /\ q.arg = req[r].arg /\ q.late = req[r].late
    BY <1>1 DEF Request
  <2>5. req[r].pc = "ids" /\ Looked(req[r])
    BY <1>4 DEF create_user, At, Apart, AllLooked
  <2>6. users' = users /\ Reads(r, q)
    BY <1>4 DEF create_user
  <2> HIDE DEF q, S
  <2>7. Looked(q)
    BY <2>3, <2>4, <2>5 DEF Looked
  <2>8. QED
    BY <1>2, <2>6, <2>7
<1>5. CASE \E i \in UserIds, e \in Emails : update_user(r, i, e)
  <2>1. PICK i \in UserIds, e \in Emails : update_user(r, i, e)
    BY <1>5
  <2> DEFINE q == [Idle EXCEPT !.pc = "email", !.user = i, !.arg = e]
  <2>2. ASSUME NEW k \in DOMAIN users, FirstWith(k, e)
        PROVE  users[k].id = i
    <3>1. users[k] \in get_user_by_email(e)
      BY <2>2 DEF FirstWith, get_user_by_email, FirstOf
    <3>2. QED
      BY <2>1, <3>1 DEF update_user
  <2>3. q.pc = "email" /\ q.user = i /\ q.arg = e
    BY DEF Idle
  <2>4. users' = users /\ Reads(r, q)
    BY <2>1 DEF update_user
  <2> HIDE DEF q
  <2>5. Looked(q)
    BY <2>2, <2>3 DEF Looked
  <2>6. QED
    BY <1>2, <2>4, <2>5
<1>6. QED
  BY <1>3, <1>4, <1>5

(* A row that is inserted by a request that was not late has an email of   *)
(* its own and the greatest id; the table numbers it after all others.     *)
LEMMA ApartInsert ==
    ASSUME IInv, Apart, NEW r \in Requests, InsertUser(r)
    PROVE  Apart'
<1> DEFINE row == [id |-> req[r].user, email |-> req[r].arg[1], pw |-> req[r].arg[2],
                   admin |-> FALSE, locs |-> {}, link |-> NoLink, late |-> req[r].late]
           n == After(DOMAIN users)
           q == IF req[r].arg[3]
                THEN [req[r] EXCEPT !.pc = "issue", !.arg = NoToken, !.epoch = epoch[req[r].user]]
                ELSE Idle
<1>1. /\ ReqTyped /\ req[r] \in Request
      /\ \A k \in DOMAIN users : users[k].id \in Nat /\ users[k].late \in BOOLEAN
  BY DEF IInv, Types, ReqTyped, UsersTyped, UserRow, UserIds
<1>2. req[r].pc = "insert" /\ Looked(req[r]) /\ req[r].user \in Nat
  <2>1. req[r].pc = "insert" /\ Looked(req[r])
    BY DEF InsertUser, At, Apart, AllLooked
  <2>2. req[r].user \in UserIds
    BY <2>1 DEF IInv, Types, ReqTyped, Fits
  <2>3. QED
    BY <2>1, <2>2 DEF UserIds
<1>3. row.id = req[r].user /\ row.email = req[r].arg[1] /\ row.late = req[r].late
  OBVIOUS
<1>4. /\ users' = [k \in DOMAIN users \cup {n} |-> IF k \in DOMAIN users THEN users[k] ELSE row]
      /\ Writes(r, q)
  BY DEF InsertUser
<1>5. Elsewhere(q)
  BY <1>1 DEF Elsewhere, Idle, Request
<1> HIDE DEF row, q
<1>6. n \in Nat /\ \A k \in DOMAIN users : k \in Nat /\ k < n
  <2>1. PICK b \in Nat : \A k \in DOMAIN users : k <= b
    BY DEF Apart, Numbered
  <2>2. DOMAIN users \subseteq Nat
    BY DEF Apart, Numbered
  <2>3. QED
    BY <2>1, <2>2, AfterIsGreater
<1> HIDE DEF n
<1>7. /\ DOMAIN users' = DOMAIN users \cup {n}
      /\ \A k \in DOMAIN users : users'[k] = users[k]
      /\ users'[n] = row
  BY <1>4, <1>6
<1>8. ~row.late => /\ \A k \in DOMAIN users : users[k].email # row.email
                   /\ \A k \in DOMAIN users : users[k].id < row.id
  BY <1>2, <1>3 DEF Looked
<1>9. Numbered'
  BY <1>6, <1>7 DEF Numbered
<1>10. LaterIds'
  <2>1. ASSUME NEW j \in DOMAIN users', NEW k \in DOMAIN users', j < k, ~users'[k].late
        PROVE  users'[j].id < users'[k].id
    <3>1. CASE k = n
      <4>1. j \in DOMAIN users
        BY <1>6, <1>7, <2>1, <3>1
      <4>2. QED
        BY <1>7, <1>8, <2>1, <3>1, <4>1
    <3>2. CASE k # n
      <4>1. k \in DOMAIN users /\ j \in DOMAIN users
        BY <1>6, <1>7, <2>1, <3>2
      <4>2. QED
        BY <1>7, <2>1, <4>1 DEF Apart, LaterIds
    <3>3. QED
      BY <3>1, <3>2
  <2>2. QED
    BY <2>1 DEF LaterIds
<1>11. EmailsApart'
  <2>1. ASSUME NEW j \in DOMAIN users', NEW k \in DOMAIN users', j < k,
               users'[j].email = users'[k].email, users'[j].id # users'[k].id,
               ~users'[k].late
        PROVE  AllLate(users[j].id)'
    <3>1. k # n /\ k \in DOMAIN users /\ j \in DOMAIN users
      <4>1. CASE k = n
        <5>1. j \in DOMAIN users
          BY <1>6, <1>7, <2>1, <4>1
        <5>2. QED
          BY <1>7, <1>8, <2>1, <4>1, <5>1
      <4>2. CASE k # n
        BY <1>6, <1>7, <2>1, <4>2
      <4>3. QED
        BY <4>1, <4>2
    <3>2. AllLate(users[j].id)
      BY <1>7, <2>1, <3>1 DEF Apart, EmailsApart
    <3>3. users'[n].id = users[j].id => users'[n].late
      BY <1>1, <1>2, <1>3, <1>7, <1>8, <3>1
    <3>4. QED
      BY <1>7, <3>1, <3>2, <3>3 DEF AllLate
  <2>2. QED
    BY <2>1 DEF EmailsApart
<1>12. AllLooked'
  BY <1>1, <1>4, <1>5, AfterWrite, NobodyLooks
<1>13. QED
  BY <1>9, <1>10, <1>11, <1>12 DEF Apart

(* Rows that are deleted take nothing from what holds of the rest.         *)
LEMMA ApartDelete ==
    ASSUME IInv, Apart, NEW r \in Requests, NEW i, delete_user(r, i)
    PROVE  Apart'
<1>1. ReqTyped
  BY DEF IInv, Types
<1>2. users' = [k \in {k \in DOMAIN users : users[k].id # i} |-> users[k]] /\ Writes(r, Idle)
  BY DEF delete_user
<1>3. DOMAIN users' \subseteq DOMAIN users /\ \A k \in DOMAIN users' : users'[k] = users[k]
  BY <1>2
<1>4. Numbered' /\ LaterIds'
  BY <1>3 DEF Apart, Numbered, LaterIds
<1>5. EmailsApart'
  BY <1>3 DEF Apart, EmailsApart, AllLate
<1>6. AllLooked'
  BY <1>1, <1>2, AfterWrite, NobodyLooks DEF Elsewhere, Idle
<1>7. QED
  BY <1>4, <1>5, <1>6 DEF Apart

(* An email is written into all rows that have the id.  If the request was *)
(* late, all of them are late now.  If not, the row that stood first with  *)
(* the email had that id too, so that a row that shares the email and not  *)
(* the id is late already, or all those with the id are.                   *)
LEMMA ApartEmail ==
    ASSUME IInv, Apart, NEW r \in Requests, UpdateEmail(r)
    PROVE  Apart'
<1> DEFINE i == req[r].user
           e == req[r].arg
<1>1. /\ ReqTyped /\ req[r].late \in BOOLEAN
      /\ \A k \in DOMAIN users : users[k] \in UserRow
  BY DEF IInv, Types, ReqTyped, UsersTyped, Request
<1>2. req[r].pc = "email" /\ Looked(req[r])
  BY DEF UpdateEmail, At, Apart, AllLooked
<1>3. /\ users' = [k \in DOMAIN users |->
                      IF users[k].id = i
                      THEN [users[k] EXCEPT !.email = e, !.late = @ \/ req[r].late]
                      ELSE users[k]]
      /\ Writes(r, Idle)
  BY DEF UpdateEmail, update_user_record
<1>4. DOMAIN users' = DOMAIN users
  BY <1>3
<1>5. ASSUME NEW k \in DOMAIN users
      PROVE  /\ users'[k].id = users[k].id
             /\ users[k].late => users'[k].late
             /\ users[k].id # i => users'[k].email = users[k].email
             /\ users[k].id = i => /\ users'[k].email = e
                                   /\ req[r].late => users'[k].late
  BY <1>1, <1>3, <1>5 DEF UserRow
<1>6. ~req[r].late => \A k \in DOMAIN users : FirstWith(k, e) => users[k].id = i
  BY <1>2 DEF Looked
<1> HIDE DEF i, e
<1>7. DOMAIN users \subseteq Nat
  BY DEF Apart, Numbered
<1>8. Numbered' /\ LaterIds'
  BY <1>4, <1>5 DEF Apart, Numbered, LaterIds
\* The first row with the email, when some row has it.
<1>9. ASSUME NEW k \in DOMAIN users, users[k].email = e
      PROVE  \E g \in DOMAIN users : FirstWith(g, e) /\ g <= k
  <2> DEFINE D == {j \in DOMAIN users : users[j].email = e}
  <2>1. D \subseteq Nat /\ k \in D
    BY <1>7, <1>9
  <2>2. PICK g \in D : \A j \in D : g <= j
    BY <2>1, LeastNumber
  <2>3. QED
    BY <2>1, <2>2 DEF FirstWith
<1>10. ASSUME NEW j \in DOMAIN users, NEW k \in DOMAIN users, j < k,
              users'[j].email = users'[k].email, users[j].id # users[k].id,
              ~users'[k].late
       PROVE  AllLate(users[j].id)'
  <2>0. ~users[k].late
    BY <1>5, <1>10
  <2>1. CASE req[r].late
    <3>1. users[k].id # i
      BY <1>5, <1>10, <2>1
    <3>2. CASE users[j].id = i
      BY <1>4, <1>5, <2>1, <3>2 DEF AllLate
    <3>3. CASE users[j].id # i
      <4>1. users[j].email = users[k].email
        BY <1>5, <1>10, <3>1, <3>3
      <4>2. AllLate(users[j].id)
        BY <1>10, <2>0, <4>1 DEF Apart, EmailsApart
      <4>3. QED
        BY <1>4, <1>5, <4>2 DEF AllLate
    <3>4. QED
      BY <3>2, <3>3
  <2>2. CASE ~req[r].late
    <3>1. CASE users[j].id # i /\ users[k].id # i
      <4>1. users[j].email = users[k].email
        BY <1>5, <1>10, <3>1
      <4>2. AllLate(users[j].id)
        BY <1>10, <2>0, <4>1 DEF Apart, EmailsApart
      <4>3. QED
        BY <1>4, <1>5, <4>2 DEF AllLate
    <3>2. CASE users[j].id = i /\ users[k].id # i
      <4>1. users[k].email = e
        BY <1>5, <1>10, <3>2
      <4>2. PICK g \in DOMAIN users : FirstWith(g, e) /\ g <= k
        BY <1>9, <4>1
      <4>3. users[g].id = i /\ users[g].email = e
        BY <1>6, <2>2, <4>2 DEF FirstWith
      <4>4. g < k
        BY <1>7, <3>2, <4>2, <4>3
      <4>5. AllLate(i)
        BY <2>0, <3>2, <4>1, <4>3, <4>4 DEF Apart, EmailsApart
      <4>6. QED
        BY <1>4, <1>5, <3>2, <4>5 DEF AllLate
    <3>3. CASE users[j].id # i /\ users[k].id = i
      <4>1. users[j].email = e
        BY <1>5, <1>10, <3>3
      <4>2. PICK g \in DOMAIN users : FirstWith(g, e) /\ g <= j
        BY <1>9, <4>1
      <4>3. users[g].id = i /\ users[g].email = e
        BY <1>6, <2>2, <4>2 DEF FirstWith
      <4>4. g < k
        BY <1>7, <1>10, <4>2
      <4>5. users[g].id < users[k].id
        BY <2>0, <4>4 DEF Apart, LaterIds
      <4>6. QED
        BY <1>1, <3>3, <4>3, <4>5 DEF UserRow, UserIds
    <3>4. QED
      BY <1>10, <3>1, <3>2, <3>3
  <2>3. QED
    BY <1>1, <2>1, <2>2
<1>11. EmailsApart'
  BY <1>4, <1>5, <1>10 DEF EmailsApart
<1>12. AllLooked'
  <2>1. req'[r] = Idle /\ Others(r) /\ Overtaken(r)
    BY <1>1, <1>3, AfterWrite
  <2>2. Elsewhere(req'[r])
    BY <2>1 DEF Elsewhere, Idle
  <2>3. QED
    BY <2>1, <2>2, NobodyLooks
<1>13. QED
  BY <1>8, <1>11, <1>12 DEF Apart

-----------------------------------------------------------------------------
(* The tables a behaviour starts from keep their accounts apart.           *)
LEMMA InitApart == SessionsInit => Apart
<1> SUFFICES ASSUME SessionsInit PROVE Apart
  OBVIOUS
<1>1. /\ DOMAIN users \subseteq Nat /\ IsFiniteSet(DOMAIN users)
      /\ \A j, k \in DOMAIN users :
            j < k => users[j].id < users[k].id /\ users[j].email # users[k].email
  BY SessionsAssumption, FirstTablesAssumption DEF SessionsInit
<1>2. \E b \in Nat : \A k \in DOMAIN users : k <= b
  <2>1. PICK n \in Nat : ExistsSurjection(1..n, DOMAIN users)
    BY <1>1, FS_NatSurjection
  <2>2. PICK f \in [1..n -> DOMAIN users] : \A k \in DOMAIN users : \E m \in 1..n : f[m] = k
    BY <2>1 DEF ExistsSurjection, Surjection
  <2>3. f \in Seq(Nat) /\ Len(f) = n
    BY <1>1, <2>2
  <2>4. CASE n = 0
    BY <2>2, <2>4
  <2>5. CASE n # 0
    <3>1. f # <<>>
      BY <2>3, <2>5
    <3>2. PICK m \in 1..Len(f) : \A k \in 1..Len(f) : f[k] <= f[m]
      BY <2>3, <3>1, Largest
    <3>3. f[m] \in Nat
      BY <1>1, <2>2, <2>3
    <3>4. QED
      BY <2>2, <2>3, <3>2, <3>3
  <2>6. QED
    BY <2>4, <2>5
<1>3. Looked(Idle)
  BY DEF Looked, Idle
<1>4. AllLooked
  BY <1>3 DEF AllLooked, SessionsInit
<1>5. QED
  BY <1>1, <1>2, <1>4 DEF Apart, Numbered, LaterIds, EmailsApart

(* Every step keeps them apart.                                            *)
LEMMA ApartStep ==
    ASSUME IInv, Apart, [SessionsNext]_sVars
    PROVE  Apart'
<1>1. \A u \in Range(users) : u.id \in UserIds
  BY DEF Range, IInv, Types, UsersTyped, UserRow
<1>2. ASSUME NEW r \in Requests, AccountNext(r) PROVE Apart'
  BY <1>1, <1>2, LookSteps, ApartInsert, ApartEmail, RowSteps, ApartDelete DEF AccountNext
<1>3. ASSUME NEW r \in Requests, SessionNext(r) PROVE Apart'
  BY <1>3, TokenSteps, RowSteps DEF SessionNext
<1>4. CASE UNCHANGED sVars
  BY <1>4 DEF sVars, Apart, Numbered, LaterIds, EmailsApart, AllLate, AllLooked, Looked, FirstWith
<1>5. QED
  BY <1>2, <1>3, <1>4 DEF SessionsNext

(* Two accounts share an id or an email only if one of them was written by *)
(* a request that another one overlapped, whatever is registered, changed  *)
(* and deleted, and however many accounts there are.                       *)
THEOREM AccountsApart == SessionsSpec => []AccountsDistinct
<1>1. IInv /\ Apart => AccountsDistinct
  <2> SUFFICES ASSUME IInv, Apart PROVE AccountsDistinct
    OBVIOUS
  <2>1. \A k \in DOMAIN users : k \in Nat /\ users[k].id \in Nat
    BY DEF IInv, Types, UsersTyped, UserRow, UserIds, Apart, Numbered
  <2>2. ASSUME NEW j \in DOMAIN users, NEW k \in DOMAIN users, j < k,
               users[j].email = users[k].email \/ users[j].id = users[k].id
        PROVE  users[j].late \/ users[k].late
    <3>1. CASE users[j].id = users[k].id
      BY <2>1, <2>2, <3>1 DEF Apart, LaterIds
    <3>2. CASE users[j].id # users[k].id
      BY <2>2, <3>2 DEF Apart, EmailsApart, AllLate
    <3>3. QED
      BY <3>1, <3>2
  <2>3. \A j, k \in DOMAIN users : j # k => j < k \/ k < j
    BY <2>1
  <2>4. QED
    BY <2>2, <2>3 DEF AccountsDistinct
<1>2. QED
  BY <1>1, InitApart, ApartStep, Invariant, PTL DEF SessionsSpec
=============================================================================
