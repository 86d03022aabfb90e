-------------------------------- MODULE Users --------------------------------
(***************************************************************************)
(* Accounts of users: one-time codes, registration, the ways to log in, the *)
(* check every request passes, and the administration of users             *)
(* (api/auth.py, security/otp_codes.py, api/deps.py, api/admin_users.py).  *)
(*                                                                         *)
(* Requests are handled concurrently; an action is what a handler does     *)
(* between two awaits that reach Postgres or Redis.  Outside of            *)
(* change_my_password and delete_user, no handler uses a transaction: what *)
(* it read may be out of date when it writes.                              *)
(*                                                                         *)
(* A password is modelled by its presence, and whoever logs in knows it;   *)
(* tokens do not expire here.  User names, and the requests that only read *)
(* (list_users, me), are left out.                                         *)
(*                                                                         *)
(* A definition followed by one of the same shape is the code, preceded by *)
(* a deliberate fault that the properties are tried against.               *)
(***************************************************************************)
EXTENDS Naturals, FiniteSets, Sequences

CONSTANTS
    Emails,
    AdminEmails,         \* settings.admin_emails
    Residents,           \* the addresses that have an account at first
    Subs,                \* subjects of Google
    SubEmail,            \* the address of a subject
    Handlers,            \* requests handled at a time
    MaxAccounts,         \* bound: accounts ever created
    MaxCodes,            \* bound: codes ever sent
    MaxRequests,         \* bound: requests
    MaxRestarts          \* bound: restarts of the process

ASSUME UsersAssumption ==
    /\ AdminEmails \subseteq Emails
    /\ Residents \in Seq(Emails) /\ Len(Residents) <= MaxAccounts
    /\ SubEmail \in [Subs -> Emails]
    /\ "none" \notin Subs
    /\ {MaxCodes, MaxRequests, MaxRestarts} \subseteq Nat
    /\ MaxAccounts \in Nat \ {0}

VARIABLES
    account,     \* users, by id
    created,     \* how many ids were given out
    code,        \* otp:{kind}:{email}: the code that is stored, 0 if none
    cooling,     \* otp:cool:{kind}:{email}
    sent,        \* how many codes were made
    tokens,      \* accounts somebody holds a token of
    request,     \* what each handler is doing
    started,     \* how many requests there were
    restarts,    \* how often the process restarted
    barred,      \* history: accounts an admin disabled and none enabled since
    overtaken,   \* history: edits under way whose account was disabled meanwhile
    revived,     \* history: accounts that such an edit has opened again
    spent        \* history: codes that were consumed or replaced

otp == <<code, cooling, sent, spent>>
bans == <<barred, overtaken, revived>>
bounds == <<started, restarts>>
usersVars == <<account, created, otp, tokens, request, bounds, bans>>

Ids == 1 .. MaxAccounts
Kinds == {"reg", "login"}
Roles == {"user", "admin"}
Statuses == {"active", "disabled"}

Row == [email : Emails, role : Roles, status : Statuses,
        password : BOOLEAN, sub : Subs \cup {"none"}]

NoRow == [email |-> "none"]

Idle == [at |-> "idle"]

Exists(u) == account[u] # NoRow

\* SELECT ... WHERE email = $1, WHERE google_sub = $1 (both are unique).
WithEmail(e) == {u \in Ids : Exists(u) /\ account[u].email = e}
WithSub(s) == {u \in Ids : Exists(u) /\ account[u].sub = s}

RoleFor(e) == IF e \in AdminEmails THEN "admin" ELSE "user"

UsersTypeOK ==
    /\ account \in [Ids -> Row \cup {NoRow}]
    /\ created \in 0 .. MaxAccounts
    /\ code \in [Kinds \X Emails -> 0 .. MaxCodes]
    /\ cooling \subseteq Kinds \X Emails
    /\ sent \in 0 .. MaxCodes
    /\ tokens \subseteq Ids
    /\ barred \subseteq Ids /\ revived \subseteq Ids /\ overtaken \subseteq Handlers
    /\ spent \subseteq 1 .. MaxCodes

\* The accounts that exist at first, by password; somebody is an admin.
UsersInit ==
    /\ account = [u \in Ids |->
          IF u \in DOMAIN Residents
          THEN [email |-> Residents[u], role |-> RoleFor(Residents[u]), status |-> "active",
                password |-> TRUE, sub |-> "none"]
          ELSE NoRow]
    /\ created = Len(Residents)
    /\ code = [k \in Kinds \X Emails |-> 0]
    /\ cooling = {} /\ sent = 0 /\ spent = {}
    /\ tokens = DOMAIN Residents
    /\ request = [h \in Handlers |-> Idle]
    /\ started = 0 /\ restarts = 0
    /\ barred = {} /\ overtaken = {} /\ revived = {}

-----------------------------------------------------------------------------
(* Handlers *)

Goes(h, r) == request' = [request EXCEPT ![h] = r]
Ends(h) == Goes(h, Idle)

\* A request arrives at a handler.
Arrives(h) ==
    /\ request[h] = Idle
    /\ started < MaxRequests
    /\ started' = started + 1

At(h, place) == request[h].at = place

\* INSERT INTO users: the address and the subject are unique, or the request
\* fails.
Insert(h, row) ==
    IF /\ WithEmail(row.email) = {}
       /\ row.sub = "none" \/ WithSub(row.sub) = {}
       /\ created < MaxAccounts
    THEN /\ created' = created + 1
         /\ account' = [account EXCEPT ![created + 1] = row]
    ELSE UNCHANGED <<account, created>>

\* The account that this step made, if any.
Inserted == (1 .. created') \ (1 .. created)

-----------------------------------------------------------------------------
(* One-time codes *)

\* send_registration_code, send_login_code: the address must be free, or that
\* of an active account ...
SendCode(h, kind, e) ==
    /\ Arrives(h)
    /\ IF kind = "reg" THEN WithEmail(e) = {}
       ELSE \E u \in WithEmail(e) : account[u].status = "active"
    /\ Goes(h, [at |-> "cooldown", kind |-> kind, email |-> e])
    /\ UNCHANGED <<account, created, otp, tokens, restarts, bans>>

\* ... and not in its cooldown ...
CheckCooldown(h) ==
    /\ At(h, "cooldown")
    /\ IF <<request[h].kind, request[h].email>> \in cooling
       THEN Ends(h)
       ELSE Goes(h, [request[h] EXCEPT !.at = "store"])
    /\ UNCHANGED <<account, created, otp, tokens, bounds, bans>>

\* ... then the code is stored ...
StoreCode(h) ==
    /\ At(h, "store")
    /\ sent < MaxCodes
    /\ sent' = sent + 1
    /\ LET k == <<request[h].kind, request[h].email>>
       IN  /\ code' = [code EXCEPT ![k] = sent + 1]
           /\ spent' = spent \cup ({code[k]} \ {0})
    /\ Goes(h, [request[h] EXCEPT !.at = "cool"])
    /\ UNCHANGED <<account, created, cooling, tokens, bounds, bans>>

\* ... the cooldown starts, and the mail is sent, or fails to be.
StartCooldown(h) ==
    /\ At(h, "cool")
    /\ cooling' = cooling \cup {<<request[h].kind, request[h].email>>}
    /\ Ends(h)
    /\ UNCHANGED <<account, created, code, sent, spent, tokens, bounds, bans>>

\* Redis drops a cooldown (60 s), or a code (600 s).
Expire(k) ==
    /\ \/ cooling' = cooling \ {k} /\ k \in cooling /\ UNCHANGED <<code, spent>>
       \/ /\ code[k] # 0 /\ k \notin cooling
          /\ code' = [code EXCEPT ![k] = 0]
          /\ spent' = spent \cup {code[k]}
          /\ UNCHANGED cooling
    /\ UNCHANGED <<account, created, sent, tokens, request, bounds, bans>>

\* verify_and_consume: the code is read and compared ...
Verify(h, kind, e, c) ==
    /\ Arrives(h)
    /\ code[<<kind, e>>] = c
    /\ Goes(h, [at |-> "consume", kind |-> kind, email |-> e, code |-> c])
    /\ UNCHANGED <<account, created, otp, tokens, restarts, bans>>

KeptCode(k) == code

\* DELETE of the key, whatever it holds by now.
DeletedCode(k) == [code EXCEPT ![k] = 0]

\* ... and deleted, in another command.
Consume(h) ==
    /\ At(h, "consume")
    /\ LET k == <<request[h].kind, request[h].email>>
       IN  /\ code' = DeletedCode(k)
           /\ spent' = spent \cup ({code[k], request[h].code} \ {0})
           /\ Goes(h, [at |-> IF k[1] = "reg" THEN "register" ELSE "login", email |-> k[2]])
    /\ UNCHANGED <<account, created, cooling, sent, tokens, bounds, bans>>

-----------------------------------------------------------------------------
(* Registration and login *)

\* register: the address is free ...
RegisterCheck(h) ==
    /\ At(h, "register")
    /\ IF WithEmail(request[h].email) = {}
       THEN Goes(h, [request[h] EXCEPT !.at = "insert"])
       ELSE Ends(h)
    /\ UNCHANGED <<account, created, otp, tokens, bounds, bans>>

\* ... and the account is inserted.
Register(h) ==
    /\ At(h, "insert")
    /\ LET e == request[h].email
       IN  Insert(h, [email |-> e, role |-> RoleFor(e), status |-> "active",
                      password |-> TRUE, sub |-> "none"])
    /\ tokens' = tokens \cup Inserted
    /\ Ends(h)
    /\ UNCHANGED <<otp, bounds, bans>>

\* login: the right password.
Login(h, e) ==
    /\ Arrives(h)
    /\ \E u \in WithEmail(e) :
          /\ account[u].status = "active" /\ account[u].password
          /\ tokens' = tokens \cup {u}
    /\ UNCHANGED <<account, created, otp, request, restarts, bans>>

\* login_code, after its code was accepted.
LoginCode(h) ==
    /\ At(h, "login")
    /\ tokens' = tokens \cup {u \in WithEmail(request[h].email) : account[u].status = "active"}
    /\ Ends(h)
    /\ UNCHANGED <<account, created, otp, bounds, bans>>

\* google_auth: the account of the subject, which is let in if it is active ...
GoogleBySub(h, s) ==
    /\ Arrives(h)
    /\ IF WithSub(s) # {}
       THEN /\ tokens' = tokens \cup {u \in WithSub(s) : account[u].status = "active"}
            /\ UNCHANGED request
       ELSE /\ Goes(h, [at |-> "google", sub |-> s])
            /\ UNCHANGED tokens
    /\ UNCHANGED <<account, created, otp, restarts, bans>>

\* ... or that of the address, which is refused if it is disabled, belongs to
\* another subject, or has a password and no subject ...
GoogleByEmail(h) ==
    /\ At(h, "google")
    /\ LET s == request[h].sub
           owners == WithEmail(SubEmail[s])
       IN  IF owners = {}
           THEN Goes(h, [at |-> "google_insert", sub |-> s])
           ELSE \E u \in owners :
                  IF /\ account[u].status = "active"
                     /\ \/ account[u].sub = s
                        \/ account[u].sub = "none" /\ ~account[u].password
                  THEN Goes(h, [at |-> "google_link", sub |-> s, user |-> u])
                  ELSE Ends(h)
    /\ UNCHANGED <<account, created, otp, tokens, bounds, bans>>

\* ... and linked to the subject, which no other account may have by now ...
GoogleLink(h) ==
    /\ At(h, "google_link")
    /\ LET u == request[h].user
           s == request[h].sub
       IN  IF WithSub(s) \subseteq {u}
           THEN /\ account' = IF Exists(u) THEN [account EXCEPT ![u].sub = s] ELSE account
                /\ tokens' = tokens \cup {u}
           ELSE UNCHANGED <<account, tokens>>
    /\ Ends(h)
    /\ UNCHANGED <<created, otp, bounds, bans>>

\* ... or a new one.
GoogleInsert(h) ==
    /\ At(h, "google_insert")
    /\ LET e == SubEmail[request[h].sub]
       IN  Insert(h, [email |-> e, role |-> RoleFor(e), status |-> "active",
                      password |-> FALSE, sub |-> request[h].sub])
    /\ tokens' = tokens \cup Inserted
    /\ Ends(h)
    /\ UNCHANGED <<otp, bounds, bans>>

AdmittedAll(u) == Exists(u)

\* get_current_user: the row is read again for each request.
Admitted(u) == Exists(u) /\ account[u].status = "active"

\* A request with a token: its handler goes on with the account it read.
Authenticate(h, u) ==
    /\ u \in tokens
    /\ Arrives(h)
    /\ Admitted(u)
    /\ Goes(h, [at |-> "authed", user |-> u, role |-> account[u].role])
    /\ UNCHANGED <<account, created, otp, tokens, restarts, bans>>

Me(h) == request[h].user

\* change_my_password: the row is locked.
ChangePassword(h) ==
    /\ At(h, "authed")
    /\ account' = IF Exists(Me(h)) THEN [account EXCEPT ![Me(h)].password = TRUE] ELSE account
    /\ Ends(h)
    /\ UNCHANGED <<created, otp, tokens, bounds, bans>>

-----------------------------------------------------------------------------
(* Administration *)

\* require_admin
IsAdmin(h) == At(h, "authed") /\ request[h].role = "admin"

\* create_user: the address is free ...
AdminCreate(h, e, role, status) ==
    /\ IsAdmin(h)
    /\ WithEmail(e) = {}
    /\ Goes(h, [at |-> "admin_insert", email |-> e, role |-> role, status |-> status])
    /\ UNCHANGED <<account, created, otp, tokens, bounds, bans>>

\* ... and the account is inserted.
AdminInsert(h) ==
    /\ At(h, "admin_insert")
    /\ Insert(h, [email |-> request[h].email, role |-> request[h].role,
                  status |-> request[h].status, password |-> TRUE, sub |-> "none"])
    /\ barred' = IF request[h].status = "disabled"
                 THEN barred \cup Inserted ELSE barred
    /\ Ends(h)
    /\ UNCHANGED <<otp, tokens, bounds, overtaken, revived>>

\* patch_user: what the request leaves out is read ...
PatchRead(h, u, role, status) ==
    /\ IsAdmin(h)
    /\ Exists(u)
    /\ role # "same" \/ status # "same"
    /\ Goes(h, [at |-> "edit", target |-> u, asked |-> status,
                role |-> IF role = "same" THEN account[u].role ELSE role,
                status |-> IF status = "same" THEN account[u].status ELSE status])
    /\ UNCHANGED <<account, created, otp, tokens, bounds, bans>>

Editors(u) == {h \in Handlers : At(h, "edit") /\ request[h].target = u}

\* ... and both fields are written, whatever was written in between.
PatchWrite(h) ==
    /\ At(h, "edit")
    /\ LET r == request[h]
       IN  /\ account' = IF Exists(r.target)
                         THEN [account EXCEPT ![r.target].role = r.role,
                                              ![r.target].status = r.status]
                         ELSE account
           /\ barred' = CASE r.asked = "disabled" /\ Exists(r.target) -> barred \cup {r.target}
                          [] r.asked = "active" -> barred \ {r.target}
                          [] OTHER -> barred
           /\ overtaken' = (IF r.asked = "disabled" THEN overtaken \cup Editors(r.target)
                            ELSE overtaken) \ {h}
           /\ revived' = CASE r.asked # "same" -> revived \ {r.target}
                           [] r.asked = "same" /\ h \in overtaken /\ r.status = "active"
                                 -> revived \cup {r.target}
                           [] OTHER -> revived
    /\ Ends(h)
    /\ UNCHANGED <<created, otp, tokens, bounds>>

\* reset_user_password
ResetPassword(h, u) ==
    /\ IsAdmin(h)
    /\ Exists(u)
    /\ account' = [account EXCEPT ![u].password = TRUE]
    /\ Ends(h)
    /\ UNCHANGED <<created, otp, tokens, bounds, bans>>

\* delete_user: somebody else's account, with its sessions.
DeleteUser(h, u) ==
    /\ IsAdmin(h)
    /\ u # Me(h)
    /\ Exists(u)
    /\ account' = [account EXCEPT ![u] = NoRow]
    /\ barred' = barred \ {u}
    /\ Ends(h)
    /\ UNCHANGED <<created, otp, tokens, bounds, overtaken, revived>>

\* The process restarts: its handlers are gone.
Restart ==
    /\ restarts < MaxRestarts
    /\ restarts' = restarts + 1
    /\ request' = [h \in Handlers |-> Idle]
    /\ overtaken' = {}
    /\ UNCHANGED <<account, created, otp, tokens, started, barred, revived>>

-----------------------------------------------------------------------------

CodeStep(h) ==
    \/ \E kind \in Kinds, e \in Emails :
          \/ SendCode(h, kind, e)
          \/ \E c \in 1 .. sent : Verify(h, kind, e, c)
    \/ CheckCooldown(h) \/ StoreCode(h) \/ StartCooldown(h) \/ Consume(h)

LoginStep(h) ==
    \/ RegisterCheck(h) \/ Register(h) \/ LoginCode(h)
    \/ \E e \in Emails : Login(h, e)
    \/ \E s \in Subs : GoogleBySub(h, s)
    \/ GoogleByEmail(h) \/ GoogleLink(h) \/ GoogleInsert(h)
    \/ \E u \in Ids : Authenticate(h, u)
    \/ ChangePassword(h)

AdminStep(h) ==
    \/ \E e \in Emails, role \in Roles, status \in Statuses : AdminCreate(h, e, role, status)
    \/ \E u \in Ids :
          \/ \E role \in Roles \cup {"same"}, status \in Statuses \cup {"same"} :
                PatchRead(h, u, role, status)
          \/ ResetPassword(h, u)
          \/ DeleteUser(h, u)
    \/ AdminInsert(h) \/ PatchWrite(h)

HandlerStep == \E h \in Handlers : CodeStep(h) \/ LoginStep(h) \/ AdminStep(h)

RedisStep == \E k \in Kinds \X Emails : Expire(k)

UsersStep == HandlerStep \/ RedisStep \/ Restart

\* Users alone, without what the other modules add to a request.
UsersSpec == UsersInit /\ [][UsersStep]_usersVars

-----------------------------------------------------------------------------
(* Properties *)

\* A request is let in on this step.
LetIn(h) == request[h] = Idle /\ request'[h] # Idle /\ request'[h].at = "authed"

\* No request is let in for an account after an admin disabled it, until an
\* admin enables it: neither an old token nor any way to log in, and no write
\* of the row by a password, a link to Google or an edit of its role opens it
\* again.  The exception is an edit of the role that had read the row before
\* it was disabled, and writes it afterwards (DisabledStaysOut).
BarredStaysOut ==
    [][\A h \in Handlers : LetIn(h) => request'[h].user \notin barred \ revived]_usersVars

\* "Disabled users cannot log in" (SettingsUserManagement.tsx): no request is
\* let in for an account after an admin disabled it, until an admin enables
\* it.  This is not so when two edits of the account overlap.
DisabledStaysOut ==
    [][\A h \in Handlers : LetIn(h) => request'[h].user \notin barred]_usersVars

\* A code that was consumed, replaced by a newer one, or expired is not
\* accepted by any request that reads the key later, whatever requests that
\* overlap store and delete under its key ("verify_and_consume").
CodeSpent ==
    [][\A h \in Handlers :
          (request[h] = Idle /\ request'[h] # Idle /\ request'[h].at = "consume")
             => request'[h].code \notin spent]_usersVars

\* One request goes on with a "one-time-code" (login/page.tsx).  This is not
\* so for two that have both read the key before either deletes it.
OneRequestPerCode ==
    \A g, h \in Handlers :
        At(g, "consume") /\ At(h, "consume") /\ request[g].code = request[h].code => g = h
=============================================================================
