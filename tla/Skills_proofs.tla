---------------------------- MODULE Skills_proofs ----------------------------
(***************************************************************************)
(* Proofs about Skills and, with it, Users: a generated package is whole   *)
(* but for paths that validation drops, a user's prompts contain what the  *)
(* user or an admin put there, a disabled account stays out but for an     *)
(* edit it overtook, and a spent code is not accepted.                     *)
(*                                                                         *)
(* Every handler reads in one step and writes in a later one, so each of   *)
(* the four rests on what the requests under way carry with them: what a   *)
(* request in a given place holds, and how it relates to the rows that     *)
(* others have changed since it read them.                                 *)
(***************************************************************************)
EXTENDS Skills, Induction

-----------------------------------------------------------------------------
(* What a request in each place holds *)

UsersShape(r) ==
    /\ r.at \in {"cooldown", "store", "cool"} =>
          r \in [at : {"cooldown", "store", "cool"}, kind : Kinds, email : Emails]
    /\ r.at = "consume" =>
          r \in [at : {"consume"}, kind : Kinds, email : Emails, code : 1 .. MaxCodes]
    /\ r.at \in {"register", "insert", "login"} =>
          r \in [at : {"register", "insert", "login"}, email : Emails]
    /\ r.at \in {"google", "google_insert"} =>
          r \in [at : {"google", "google_insert"}, sub : Subs]
    /\ r.at = "google_link" => r \in [at : {"google_link"}, sub : Subs, user : Ids]
    /\ r.at = "authed" => r \in [at : {"authed"}, user : Ids, role : Roles]
    /\ r.at = "admin_insert" =>
          r \in [at : {"admin_insert"}, email : Emails, role : Roles, status : Statuses]
    /\ r.at = "edit" =>
          r \in [at : {"edit"}, target : Ids, asked : Statuses \cup {"same"},
                 role : Roles, status : Statuses]

SkillsShape(r) ==
    /\ r.at = "draft" =>
          r \in [at : {"draft"}, user : Ids, role : Roles, refs : SUBSET Scripts,
                 scripted : BOOLEAN, visibility : {"private", "shared"}]
    /\ r.at = "patch" =>
          r \in [at : {"patch"}, user : Ids, role : Roles, name : Names,
                 refs : SUBSET Scripts, scripted : BOOLEAN,
                 visibility : {"private", "shared"}, package : Packages]
    /\ r.at = "version" =>
          r \in [at : {"version"}, user : Ids, role : Roles, name : Names, package : Packages,
                 visibility : {"private", "shared"}, source : {"manual", "generated"}]
    /\ r.at = "skill_insert" =>
          r \in [at : {"skill_insert"}, role : Roles, made_by : {"manual", "generated"},
                 row : [owner : Ids, name : Names, visibility : Visibilities,
                        source : {"manual", "generated", "official"},
                        version : 1 .. MaxSkills + 1, package : Packages]]
    /\ r.at = "enable" => r \in [at : {"enable"}, user : Ids, skill : SkillIds]
    /\ r.at = "switch" =>
          r \in [at : {"switch"}, user : Ids, skill : SkillIds, on : BOOLEAN]
    /\ r.at = "skill_delete" => r \in [at : {"skill_delete"}, skill : SkillIds]

\* But for paths that are not kept, a package is whole.
Whole(p) == Missing(p) \subseteq Unkept

\* What a request that waits to create a package carries is whole if it was
\* generated, and official only if an admin made it.
WholeRequest(r) ==
    /\ r.at = "version" /\ r.source = "generated" => Whole(r.package)
    /\ r.at = "skill_insert" =>
          /\ r.made_by = "generated" => Whole(r.row.package)
          /\ r.row.visibility = "official" => r.role = "admin"

RequestsInv ==
    /\ request = [h \in Handlers |-> request[h]]
    /\ \A h \in Handlers :
          UsersShape(request[h]) /\ SkillsShape(request[h]) /\ WholeRequest(request[h])

-----------------------------------------------------------------------------
(* Accounts, edits under way and codes *)

AccountsInv ==
    /\ account \in [Ids -> Row \cup {NoRow}]
    /\ created \in 0 .. MaxAccounts
    /\ \A u \in Ids : Exists(u) => u <= created
    /\ tokens \subseteq Ids
    /\ barred \subseteq 1 .. created
    /\ revived \subseteq Ids /\ overtaken \subseteq Handlers

\* An account that an admin disabled is disabled, unless an edit that was
\* overtaken has opened it again.
BarredInv == \A u \in barred \ revived : Exists(u) => account[u].status = "disabled"

\* An edit under way writes the status it was asked for; when it was asked for
\* none it does not write an older one over a disabled account, unless it was
\* overtaken.
EditOf(h) ==
    At(h, "edit") =>
        /\ request[h].asked # "same" => request[h].status = request[h].asked
        /\ request[h].asked = "same" /\ request[h].target \in barred \ revived
              => request[h].status = "disabled" \/ h \in overtaken

EditsInv ==
    /\ \A h \in Handlers : At(h, "edit") => request[h].target <= created
    /\ \A h \in Handlers : EditOf(h)

\* No two keys hold the same code, what a key holds is not spent, and a code
\* that waits to be consumed is held by its own key or by none.
CodesInv ==
    /\ code \in [Kinds \X Emails -> 0 .. MaxCodes]
    /\ cooling \subseteq Kinds \X Emails
    /\ sent \in 0 .. MaxCodes
    /\ spent \subseteq 1 .. sent
    /\ \A k \in Kinds \X Emails : code[k] <= sent /\ code[k] \notin spent
    /\ \A k, l \in Kinds \X Emails : code[k] # 0 /\ code[k] = code[l] => k = l

ConsumeOf(r) ==
    r.at = "consume" =>
        /\ r.code <= sent
        /\ \A k \in Kinds \X Emails : code[k] = r.code => k = <<r.kind, r.email>>

ConsumesInv == \A h \in Handlers : ConsumeOf(request[h])

-----------------------------------------------------------------------------
(* Skills *)

SkillsInv ==
    /\ skill \in [SkillIds -> SkillRow \cup {NoSkill}]
    /\ made \in 1 .. MaxSkills
    /\ enabled \in [Pairs -> {"none", "on", "off"}]
    /\ chosen \subseteq Pairs
    /\ \A s \in SkillIds : Stored(s) => s <= made /\ skill[s].version <= made

\* A version that waits to be inserted is the next one at most.
VersionOf(r) == r.at = "skill_insert" => r.row.version <= made + 1

\* What is switched on was chosen, and a switch belongs to an account and a
\* skill that exist.
SwitchesInv ==
    \A u \in Ids : \A s \in SkillIds :
        /\ enabled[<<u, s>>] = "on" => <<u, s>> \in chosen
        /\ enabled[<<u, s>>] # "none" => Exists(u) /\ Stored(s)

UsersInv ==
    /\ RequestsInv /\ AccountsInv /\ BarredInv /\ EditsInv /\ CodesInv /\ ConsumesInv

VersionsInv == \A h \in Handlers : VersionOf(request[h])

\* Ids that were not given out are not those of generated skills, and what is
\* part of every prompt was endorsed.
OriginsInv ==
    /\ generated \subseteq 1 .. made /\ endorsed \subseteq SkillIds
    /\ \A s \in SkillIds : Stored(s) /\ skill[s].visibility = "official" => s \in endorsed

PackagesInv == SkillsInv /\ SwitchesInv /\ VersionsInv /\ OriginsInv /\ GeneratedIsWhole

\* The inductive invariant.
Inv == UsersInv /\ PackagesInv

-----------------------------------------------------------------------------
(* Requests *)

\* A row is not the absence of one.
LEMMA RowIsSome == \A r \in Row : r # NoRow
<1>1. ASSUME NEW r \in Row PROVE r # NoRow
  <2>1. "role" \in DOMAIN r
    BY DEF Row
  <2>2. "role" \notin DOMAIN NoRow
    BY DEF NoRow
  <2>3. QED
    BY <2>1, <2>2
<1>2. QED
  BY <1>1

LEMMA SkillIsSome == \A r \in SkillRow : r # NoSkill
<1>1. ASSUME NEW r \in SkillRow PROVE r # NoSkill
  <2>1. "name" \in DOMAIN r
    BY DEF SkillRow
  <2>2. "name" \notin DOMAIN NoSkill
    BY DEF NoSkill
  <2>3. QED
    BY <2>1, <2>2
<1>2. QED
  BY <1>1

\* A request that may be in any place.
SafeShape(r) == UsersShape(r) /\ SkillsShape(r) /\ WholeRequest(r)

LEMMA GoesFacts ==
    ASSUME RequestsInv, NEW h \in Handlers, NEW r, Goes(h, r)
    PROVE  /\ request'[h] = r
           /\ \A g \in Handlers : g # h => request'[g] = request[g]
           /\ request' = [g \in Handlers |-> request'[g]]
<1>1. DOMAIN request = Handlers
  BY DEF RequestsInv
<1>2. request' = [g \in Handlers |-> IF g = h THEN r ELSE request[g]]
  BY <1>1 DEF Goes
<1>3. QED
  BY <1>2

LEMMA SafeGoes ==
    ASSUME RequestsInv, NEW h \in Handlers, NEW r, Goes(h, r), SafeShape(r)
    PROVE  RequestsInv'
<1>1. /\ request'[h] = r
      /\ \A g \in Handlers : g # h => request'[g] = request[g]
      /\ request' = [g \in Handlers |-> request'[g]]
  BY GoesFacts
<1>2. \A g \in Handlers : SafeShape(request'[g])
  <2>1. ASSUME NEW g \in Handlers PROVE SafeShape(request'[g])
    <3>1. CASE g = h
      BY <1>1, <3>1
    <3>2. CASE g # h
      BY <1>1, <3>2 DEF RequestsInv, SafeShape
    <3>3. QED
      BY <3>1, <3>2
  <2>2. QED
    BY <2>1
<1>3. QED
  BY <1>1, <1>2 DEF RequestsInv, SafeShape

LEMMA IdleIsSafe == SafeShape(Idle) /\ Idle.at = "idle"
BY DEF SafeShape, UsersShape, SkillsShape, WholeRequest, Idle

LEMMA SafeEnds ==
    ASSUME RequestsInv, NEW h \in Handlers, Ends(h)
    PROVE  RequestsInv'
BY SafeGoes, IdleIsSafe DEF Ends

\* No request begins an edit or the consumption of a code.
NoNewDuty ==
    \A g \in Handlers : request'[g] = request[g] \/ request'[g].at \notin {"edit", "consume"}

LEMMA FreeOfDuty ==
    ASSUME RequestsInv, NEW h \in Handlers, NEW r, Goes(h, r), r.at \notin {"edit", "consume"}
    PROVE  NoNewDuty
BY GoesFacts DEF NoNewDuty

LEMMA FreeAtEnd ==
    ASSUME RequestsInv, NEW h \in Handlers, Ends(h)
    PROVE  NoNewDuty
BY FreeOfDuty, IdleIsSafe DEF Ends

\* A step of a request that is neither.
Harmless == RequestsInv' /\ NoNewDuty

LEMMA HarmlessGoes ==
    ASSUME RequestsInv, NEW h \in Handlers, NEW r, Goes(h, r), SafeShape(r),
           r.at \notin {"edit", "consume"}
    PROVE  Harmless
BY SafeGoes, FreeOfDuty DEF Harmless

LEMMA HarmlessEnds ==
    ASSUME RequestsInv, NEW h \in Handlers, Ends(h)
    PROVE  Harmless
BY SafeEnds, FreeAtEnd DEF Harmless

LEMMA HarmlessSame ==
    ASSUME RequestsInv, UNCHANGED request
    PROVE  Harmless
BY DEF Harmless, RequestsInv, NoNewDuty

-----------------------------------------------------------------------------
(* What each part of the invariant needs of a step *)

LEMMA EditsKept ==
    ASSUME RequestsInv, EditsInv, AccountsInv, NoNewDuty,
           created' \in Nat, created <= created', UNCHANGED <<overtaken, revived>>,
           \A u \in barred' : u \in barred \/ u > created
    PROVE  EditsInv'
<1>1. created \in Nat
  BY DEF AccountsInv
<1>2. ASSUME NEW g \in Handlers, request'[g].at = "edit"
      PROVE  request'[g] = request[g]
  BY <1>2 DEF NoNewDuty
<1>3. ASSUME NEW g \in Handlers, request'[g].at = "edit"
      PROVE  /\ request[g].target \in Nat /\ request[g].target <= created
             /\ request'[g].target <= created'
  <2>1. request'[g] = request[g] /\ request[g].at = "edit"
    BY <1>2, <1>3
  <2>2. request[g] \in [at : {"edit"}, target : Ids, asked : Statuses \cup {"same"},
                       role : Roles, status : Statuses]
    BY <2>1 DEF RequestsInv, UsersShape
  <2>3. request[g].target \in Nat /\ request[g].target <= created
    BY <2>1, <2>2 DEF Ids, EditsInv, At
  <2>4. QED
    BY <1>1, <2>1, <2>3
<1>4. ASSUME NEW g \in Handlers
      PROVE  EditOf(g)'
  <2>1. SUFFICES ASSUME request'[g].at = "edit"
                 PROVE  EditOf(g)'
    BY DEF EditOf, At
  <2>2. request'[g] = request[g] /\ EditOf(g) /\ request[g].at = "edit"
    BY <1>2, <2>1 DEF EditsInv
  <2>3. request[g].target \in barred' => request[g].target \in barred
    BY <1>1, <1>3, <2>1
  <2>4. QED
    BY <2>2, <2>3 DEF EditOf, At
<1>5. QED
  BY <1>2, <1>3, <1>4 DEF EditsInv, At

LEMMA EditsStay ==
    ASSUME RequestsInv, EditsInv, AccountsInv, NoNewDuty, UNCHANGED <<created, bans>>
    PROVE  EditsInv'
<1>1. created' \in Nat /\ created <= created' /\ UNCHANGED <<overtaken, revived>>
      /\ \A u \in barred' : u \in barred \/ u > created
  BY DEF AccountsInv, bans
<1>2. QED
  BY <1>1, EditsKept

LEMMA AccountsStay ==
    ASSUME AccountsInv, BarredInv, UNCHANGED <<account, created, bans>>, tokens' \subseteq Ids
    PROVE  AccountsInv' /\ BarredInv'
BY DEF AccountsInv, BarredInv, Exists, bans

LEMMA ConsumesKept ==
    ASSUME ConsumesInv, CodesInv, NoNewDuty, UNCHANGED otp
    PROVE  CodesInv' /\ ConsumesInv'
<1>1. CodesInv'
  BY DEF CodesInv, otp
<1>2. ASSUME NEW g \in Handlers
      PROVE  ConsumeOf(request[g])'
  BY DEF ConsumesInv, ConsumeOf, NoNewDuty, otp
<1>3. QED
  BY <1>1, <1>2 DEF ConsumesInv

\* A step that leaves accounts and codes alone, but for tokens.
LEMMA RequestKeeps ==
    ASSUME UsersInv, Harmless, UNCHANGED <<account, created, otp, bans>>,
           tokens' \subseteq Ids
    PROVE  UsersInv'
<1>1. UNCHANGED <<account, created, bans>> /\ AccountsInv /\ BarredInv /\ EditsInv
      /\ RequestsInv /\ NoNewDuty
  BY DEF UsersInv, Harmless
<1>2. AccountsInv' /\ BarredInv'
  BY <1>1, AccountsStay
<1>3. EditsInv'
  BY <1>1, EditsStay
<1>4. CodesInv' /\ ConsumesInv'
  BY ConsumesKept DEF UsersInv, Harmless
<1>5. QED
  BY <1>1, <1>2, <1>3, <1>4 DEF UsersInv, Harmless

\* A step that writes accounts: rows stay typed, no id beyond those given out
\* is used, and no disabled account is opened.
LEMMA AccountKeeps ==
    ASSUME UsersInv, Harmless, UNCHANGED otp,
           account' \in [Ids -> Row \cup {NoRow}],
           created' \in 0 .. MaxAccounts, created <= created',
           \A u \in Ids : account'[u] # NoRow => u <= created',
           tokens' \subseteq Ids,
           barred' \subseteq 1 .. created',
           \A u \in barred' : u \in barred \/ u > created,
           UNCHANGED <<overtaken, revived>>,
           \A u \in barred' \ revived' :
              account'[u] # NoRow => account'[u].status = "disabled"
    PROVE  UsersInv'
<1>1. AccountsInv'
  BY DEF UsersInv, AccountsInv, Exists
<1>2. BarredInv'
  BY DEF BarredInv, Exists
<1>3. EditsInv'
  <2>1. created' \in Nat
    OBVIOUS
  <2>2. QED
    BY <2>1, EditsKept DEF UsersInv, Harmless
<1>4. CodesInv' /\ ConsumesInv'
  BY ConsumesKept DEF UsersInv, Harmless
<1>5. QED
  BY <1>1, <1>2, <1>3, <1>4 DEF UsersInv, Harmless

\* Writing the row of an account without touching its status.
LEMMA RowKeeps ==
    ASSUME UsersInv, Harmless, UNCHANGED <<otp, created>>,
           NEW u \in Ids, Exists(u), NEW r \in Row, r.status = account[u].status,
           account' = [account EXCEPT ![u] = r],
           tokens' \subseteq Ids, UNCHANGED bans
    PROVE  UsersInv'
<1>1. account \in [Ids -> Row \cup {NoRow}] /\ created \in 0 .. MaxAccounts
  BY DEF UsersInv, AccountsInv
<1>2. account' \in [Ids -> Row \cup {NoRow}]
  BY <1>1
<1>3. /\ account'[u] = r /\ \A v \in Ids : v # u => account'[v] = account[v]
      /\ \A v \in Ids : account'[v] # NoRow => account[v] # NoRow
  BY <1>1 DEF Exists
<1>4. \A v \in Ids : account'[v] # NoRow => v <= created'
  BY <1>3 DEF UsersInv, AccountsInv, Exists
<1>5. barred \subseteq Ids /\ barred' \subseteq 1 .. created'
  BY <1>1, UsersAssumption DEF UsersInv, AccountsInv, Ids, bans
<1>6. \A v \in barred' \ revived' :
         account'[v] # NoRow => account'[v].status = "disabled"
  BY <1>3, <1>5 DEF UsersInv, BarredInv, Exists, bans
<1>7. created' \in 0 .. MaxAccounts /\ created <= created'
  BY <1>1
<1>8. (\A v \in barred' : v \in barred \/ v > created) /\ UNCHANGED <<overtaken, revived>>
  BY DEF bans
<1>9. UNCHANGED otp
  OBVIOUS
<1>10. QED
  BY <1>2, <1>4, <1>5, <1>6, <1>7, <1>8, <1>9, AccountKeeps

\* Inserting a row under a new id.
LEMMA InsertKeeps ==
    ASSUME UsersInv, Harmless, UNCHANGED otp,
           NEW h \in Handlers, NEW r \in Row, Insert(h, r),
           tokens' \subseteq tokens \cup Inserted,
           barred' = barred \/ (barred' = barred \cup Inserted /\ r.status = "disabled"),
           UNCHANGED <<overtaken, revived>>
    PROVE  UsersInv'
<1>1. /\ account \in [Ids -> Row \cup {NoRow}] /\ created \in 0 .. MaxAccounts
      /\ MaxAccounts \in Nat /\ created \in Nat
  BY UsersAssumption DEF UsersInv, AccountsInv
<1>2. CASE UNCHANGED <<account, created>>
  <2>1. Inserted = {}
    BY <1>2 DEF Inserted
  <2>2. UNCHANGED bans /\ tokens' \subseteq Ids
    BY <2>1 DEF UsersInv, AccountsInv, bans
  <2>3. QED
    BY <1>2, <2>2, RequestKeeps
<1>3. CASE /\ created < MaxAccounts /\ created' = created + 1
           /\ account' = [account EXCEPT ![created + 1] = r]
  <2>1. Inserted = {created + 1} /\ created + 1 \in Ids /\ created' \in 0 .. MaxAccounts
        /\ created <= created'
    BY <1>1, <1>3 DEF Inserted, Ids
  <2>2. /\ account' \in [Ids -> Row \cup {NoRow}] /\ account'[created + 1] = r
        /\ \A v \in Ids : v # created + 1 => account'[v] = account[v]
    BY <1>1, <1>3, <2>1
  <2>3. \A v \in Ids : account'[v] # NoRow => v <= created'
    <3>1. ASSUME NEW v \in Ids, account'[v] # NoRow PROVE v <= created'
      <4>1. v \in Nat
        BY DEF Ids
      <4>2. CASE v = created + 1
        BY <1>1, <1>3, <4>2
      <4>3. CASE v # created + 1
        <5>1. v <= created
          BY <2>2, <3>1, <4>3 DEF UsersInv, AccountsInv, Exists
        <5>2. QED
          BY <1>1, <1>3, <4>1, <5>1
      <4>4. QED
        BY <4>2, <4>3
    <3>2. QED
      BY <3>1
  <2>4. barred \subseteq 1 .. created
    BY DEF UsersInv, AccountsInv
  <2>5. barred' \subseteq 1 .. created' /\ \A v \in barred' : v \in barred \/ v > created
    <3>1. \A v \in barred' : v \in barred \/ v = created + 1
      BY <2>1
    <3>2. \A v \in barred : v \in Nat /\ 1 <= v /\ v <= created
      BY <1>1, <2>4
    <3>3. QED
      BY <1>1, <1>3, <3>1, <3>2
  <2>6. ASSUME NEW v \in barred' \ revived', account'[v] # NoRow
        PROVE  account'[v].status = "disabled"
    <3>1. CASE v = created + 1
      <4>1. v \notin barred
        BY <1>1, <2>4, <3>1
      <4>2. QED
        BY <2>2, <2>6, <3>1, <4>1
    <3>2. CASE v # created + 1
      <4>1. v \in barred \ revived /\ v \in Ids
        <5>1. v \in barred \ revived
          BY <2>1, <2>6, <3>2
        <5>2. QED
          BY <1>1, <2>4, <5>1 DEF Ids
      <4>2. account'[v] = account[v]
        BY <2>2, <3>2, <4>1
      <4>3. QED
        BY <2>6, <4>1, <4>2 DEF UsersInv, BarredInv, Exists
    <3>3. QED
      BY <3>1, <3>2
  <2>7. tokens' \subseteq Ids
    BY <2>1 DEF UsersInv, AccountsInv
  <2>8. QED
    BY <2>1, <2>2, <2>3, <2>5, <2>6, <2>7, AccountKeeps
<1>4. QED
  BY <1>2, <1>3 DEF Insert

-----------------------------------------------------------------------------
(* The requests of Users, one by one *)

\* What a place says of the request that is there.
LEMMA PlaceFacts ==
    ASSUME RequestsInv, NEW h \in Handlers
    PROVE  UsersShape(request[h]) /\ SkillsShape(request[h]) /\ WholeRequest(request[h])
BY DEF RequestsInv

LEMMA SendCodeKeeps ==
    ASSUME UsersInv, NEW h \in Handlers, NEW kind \in Kinds, NEW e \in Emails,
           SendCode(h, kind, e)
    PROVE  UsersInv'
<1>1. SafeShape([at |-> "cooldown", kind |-> kind, email |-> e])
  BY DEF SafeShape, UsersShape, SkillsShape, WholeRequest
<1>2. Harmless
  BY <1>1, HarmlessGoes DEF UsersInv, SendCode
<1>3. QED
  BY <1>2, RequestKeeps DEF SendCode, UsersInv, AccountsInv

LEMMA CheckCooldownKeeps ==
    ASSUME UsersInv, NEW h \in Handlers, CheckCooldown(h)
    PROVE  UsersInv'
<1>1. request[h] \in [at : {"cooldown", "store", "cool"}, kind : Kinds, email : Emails]
  BY PlaceFacts DEF UsersInv, CheckCooldown, At, UsersShape
<1>2. SafeShape([request[h] EXCEPT !.at = "store"]) /\ [request[h] EXCEPT !.at = "store"].at = "store"
  BY <1>1 DEF SafeShape, UsersShape, SkillsShape, WholeRequest
<1>3. Harmless
  BY <1>2, HarmlessGoes, HarmlessEnds DEF UsersInv, CheckCooldown
<1>4. QED
  BY <1>3, RequestKeeps DEF CheckCooldown, UsersInv, AccountsInv

\* A new code is like no other and replaces the one before.
LEMMA StoreCodeKeeps ==
    ASSUME UsersInv, NEW h \in Handlers, StoreCode(h)
    PROVE  UsersInv'
<1> DEFINE k == <<request[h].kind, request[h].email>>
<1>1. request[h] \in [at : {"cooldown", "store", "cool"}, kind : Kinds, email : Emails]
  BY PlaceFacts DEF UsersInv, StoreCode, At, UsersShape
<1>2. k \in Kinds \X Emails
  BY <1>1
<1>3. SafeShape([request[h] EXCEPT !.at = "cool"]) /\ [request[h] EXCEPT !.at = "cool"].at = "cool"
  BY <1>1 DEF SafeShape, UsersShape, SkillsShape, WholeRequest
<1>4. Harmless
  BY <1>3, HarmlessGoes DEF UsersInv, StoreCode
<1>5. /\ code \in [Kinds \X Emails -> 0 .. MaxCodes] /\ sent \in Nat /\ MaxCodes \in Nat
      /\ spent \subseteq 1 .. sent
      /\ sent < MaxCodes /\ sent' = sent + 1
      /\ code' = [code EXCEPT ![k] = sent + 1] /\ spent' = spent \cup ({code[k]} \ {0})
      /\ UNCHANGED <<cooling, account, created, tokens, bans>>
  BY UsersAssumption DEF UsersInv, CodesInv, StoreCode
<1> HIDE DEF k
<1>6. /\ code'[k] = sent + 1
      /\ \A l \in Kinds \X Emails : l # k => code'[l] = code[l]
      /\ code' \in [Kinds \X Emails -> 0 .. MaxCodes]
  BY <1>2, <1>5
<1>7. \A l \in Kinds \X Emails : code[l] \in Nat /\ code[l] <= sent /\ code[l] \notin spent
  BY <1>5 DEF UsersInv, CodesInv
<1>8. CodesInv'
  <2>1. spent' \subseteq 1 .. sent' /\ sent' \in 0 .. MaxCodes
    <3>1. \A c \in spent' : c \in spent \/ (c = code[k] /\ c # 0)
      BY <1>5
    <3>2. \A c \in spent' : c \in Nat /\ 1 <= c /\ c <= sent
      BY <1>2, <1>5, <1>7, <3>1
    <3>3. sent \in Nat /\ MaxCodes \in Nat /\ sent < MaxCodes /\ sent' = sent + 1
      BY <1>5
    <3>4. QED
      BY <3>2, <3>3
  <2>2. ASSUME NEW l \in Kinds \X Emails
        PROVE  code'[l] <= sent' /\ code'[l] \notin spent'
    <3>1. CASE l = k
      BY <1>2, <1>5, <1>6, <1>7, <3>1
    <3>2. CASE l # k
      <4>1. code[l] # 0 => code[l] # code[k]
        BY <1>2, <3>2 DEF UsersInv, CodesInv
      <4>2. QED
        BY <1>5, <1>6, <1>7, <3>2, <4>1
    <3>3. QED
      BY <3>1, <3>2
  <2>3. ASSUME NEW l \in Kinds \X Emails, NEW m \in Kinds \X Emails,
               code'[l] # 0, code'[l] = code'[m]
        PROVE  l = m
    <3>1. CASE l # k /\ m # k
      BY <1>6, <2>3, <3>1 DEF UsersInv, CodesInv
    <3>2. CASE l = k \/ m = k
      BY <1>5, <1>6, <1>7, <2>3, <3>2
    <3>3. QED
      BY <3>1, <3>2
  <2>4. cooling' \subseteq Kinds \X Emails
    BY <1>5 DEF UsersInv, CodesInv
  <2>5. QED
    BY <1>6, <2>1, <2>2, <2>3, <2>4 DEF CodesInv
<1>9. ConsumesInv'
  <2>1. ASSUME NEW g \in Handlers, request'[g].at = "consume"
        PROVE  /\ request'[g].code <= sent'
               /\ \A l \in Kinds \X Emails :
                     code'[l] = request'[g].code => l = <<request'[g].kind, request'[g].email>>
    <3>1. request'[g] = request[g]
      BY <1>4, <2>1 DEF Harmless, NoNewDuty
    <3>2. /\ request[g].code \in Nat /\ request[g].code <= sent
          /\ \A l \in Kinds \X Emails :
                code[l] = request[g].code => l = <<request[g].kind, request[g].email>>
      <4>1. request[g] \in [at : {"consume"}, kind : Kinds, email : Emails, code : 1 .. MaxCodes]
        BY <2>1, <3>1, PlaceFacts DEF UsersInv, UsersShape
      <4>2. QED
        BY <2>1, <3>1, <4>1 DEF UsersInv, ConsumesInv, ConsumeOf
    <3>3. QED
      BY <1>5, <1>6, <3>1, <3>2
  <2>2. QED
    BY <2>1 DEF ConsumesInv, ConsumeOf
<1>10. AccountsInv' /\ BarredInv'
  <2>1. UNCHANGED <<account, created, bans>> /\ tokens' \subseteq Ids
    BY <1>5 DEF UsersInv, AccountsInv
  <2>2. QED
    BY <2>1, AccountsStay DEF UsersInv
<1>11. EditsInv'
  BY <1>4, <1>5, EditsStay DEF UsersInv, Harmless
<1>12. QED
  BY <1>4, <1>8, <1>9, <1>10, <1>11 DEF UsersInv, Harmless

LEMMA StartCooldownKeeps ==
    ASSUME UsersInv, NEW h \in Handlers, StartCooldown(h)
    PROVE  UsersInv'
<1>1. request[h] \in [at : {"cooldown", "store", "cool"}, kind : Kinds, email : Emails]
  BY PlaceFacts DEF UsersInv, StartCooldown, At, UsersShape
<1>2. Harmless
  BY HarmlessEnds DEF UsersInv, StartCooldown
<1>3. /\ UNCHANGED <<code, sent, spent, account, created, tokens, bans>>
      /\ cooling' \subseteq Kinds \X Emails
  BY <1>1 DEF UsersInv, CodesInv, StartCooldown
<1>4. CodesInv'
  BY <1>3 DEF UsersInv, CodesInv
<1>5. ConsumesInv'
  BY <1>2, <1>3 DEF UsersInv, ConsumesInv, ConsumeOf, Harmless, NoNewDuty
<1>6. AccountsInv' /\ BarredInv'
  <2>1. UNCHANGED <<account, created, bans>> /\ tokens' \subseteq Ids
    BY <1>3 DEF UsersInv, AccountsInv
  <2>2. QED
    BY <2>1, AccountsStay DEF UsersInv
<1>7. EditsInv'
  BY <1>2, <1>3, EditsStay DEF UsersInv, Harmless
<1>8. QED
  BY <1>2, <1>4, <1>5, <1>6, <1>7 DEF UsersInv, Harmless

\* A key loses its code, which is spent, and so may be another one that no
\* other key holds.
LEMMA DropCodes ==
    ASSUME RequestsInv, CodesInv, ConsumesInv, Harmless, NEW k \in Kinds \X Emails,
           NEW c \in 1 .. sent,
           \A l \in Kinds \X Emails : code[l] = c => l = k,
           code' = [code EXCEPT ![k] = 0],
           spent' = spent \cup ({code[k], c} \ {0}),
           UNCHANGED <<cooling, sent>>
    PROVE  CodesInv' /\ ConsumesInv'
<1>1. /\ code \in [Kinds \X Emails -> 0 .. MaxCodes] /\ sent \in Nat
      /\ spent \subseteq 1 .. sent /\ MaxCodes \in Nat
      /\ \A l \in Kinds \X Emails : code[l] \in Nat /\ code[l] <= sent /\ code[l] \notin spent
  BY UsersAssumption DEF CodesInv
<1>2. /\ code'[k] = 0
      /\ \A l \in Kinds \X Emails : l # k => code'[l] = code[l]
      /\ code' \in [Kinds \X Emails -> 0 .. MaxCodes]
  BY <1>1
<1>3. spent' \subseteq 1 .. sent'
  <2>1. \A d \in spent' : d \in spent \/ d = c \/ (d = code[k] /\ d # 0)
    OBVIOUS
  <2>2. code[k] # 0 => code[k] \in 1 .. sent
    BY <1>1
  <2>3. QED
    BY <1>1, <2>1, <2>2
<1>4. \A l \in Kinds \X Emails : code'[l] <= sent' /\ code'[l] \notin spent'
  <2>1. ASSUME NEW l \in Kinds \X Emails PROVE code'[l] <= sent' /\ code'[l] \notin spent'
    <3>1. CASE l = k
      BY <1>1, <1>2, <1>3, <3>1
    <3>2. CASE l # k
      <4>1. code[l] # c /\ (code[l] # 0 => code[l] # code[k])
        BY <3>2 DEF CodesInv
      <4>2. code[l] \notin spent'
        BY <1>1, <4>1
      <4>3. QED
        BY <1>1, <1>2, <3>2, <4>2
    <3>3. QED
      BY <3>1, <3>2
  <2>2. QED
    BY <2>1
<1>5. \A l, m \in Kinds \X Emails : code'[l] # 0 /\ code'[l] = code'[m] => l = m
  BY <1>2 DEF CodesInv
<1>6. CodesInv'
  BY <1>2, <1>3, <1>4, <1>5 DEF CodesInv
<1>7. ConsumesInv'
  <2>1. ASSUME NEW g \in Handlers, request'[g].at = "consume"
        PROVE  /\ request'[g].code <= sent'
               /\ \A l \in Kinds \X Emails :
                     code'[l] = request'[g].code => l = <<request'[g].kind, request'[g].email>>
    <3>1. request'[g] = request[g]
      BY <2>1 DEF Harmless, NoNewDuty
    <3>2. /\ request[g].code # 0 /\ request[g].code <= sent
          /\ \A l \in Kinds \X Emails :
                code[l] = request[g].code => l = <<request[g].kind, request[g].email>>
      <4>1. request[g] \in [at : {"consume"}, kind : Kinds, email : Emails, code : 1 .. MaxCodes]
        BY <2>1, <3>1, PlaceFacts DEF UsersShape
      <4>2. QED
        BY <2>1, <3>1, <4>1 DEF ConsumesInv, ConsumeOf
    <3>3. QED
      BY <1>2, <3>1, <3>2
  <2>2. QED
    BY <2>1 DEF ConsumesInv, ConsumeOf
<1>8. QED
  BY <1>6, <1>7

LEMMA ExpireKeeps ==
    ASSUME UsersInv, NEW k \in Kinds \X Emails, Expire(k)
    PROVE  UsersInv'
<1>1. Harmless
  BY HarmlessSame DEF UsersInv, Expire
<1>2. UNCHANGED <<account, created, sent, tokens, request, bans>>
  BY DEF Expire
<1>3. AccountsInv' /\ BarredInv'
  <2>1. UNCHANGED <<account, created, bans>> /\ tokens' \subseteq Ids
    BY <1>2 DEF UsersInv, AccountsInv
  <2>2. QED
    BY <2>1, AccountsStay DEF UsersInv
<1>4. EditsInv'
  BY <1>1, <1>2, EditsStay DEF UsersInv, Harmless
<1>5. CodesInv' /\ ConsumesInv'
  <2>1. CASE UNCHANGED <<code, spent>> /\ cooling' = cooling \ {k}
    <3>1. CodesInv'
      BY <1>2, <2>1 DEF UsersInv, CodesInv
    <3>2. ConsumesInv'
      BY <1>2, <2>1 DEF UsersInv, ConsumesInv, ConsumeOf
    <3>3. QED
      BY <3>1, <3>2
  <2>2. CASE /\ code[k] # 0 /\ code' = [code EXCEPT ![k] = 0]
             /\ spent' = spent \cup {code[k]} /\ UNCHANGED cooling
    <3>1. /\ code[k] \in 1 .. sent
          /\ \A l \in Kinds \X Emails : code[l] = code[k] => l = k
      BY <2>2 DEF UsersInv, CodesInv
    <3>2. spent' = spent \cup ({code[k], code[k]} \ {0})
      BY <2>2
    <3>3. UNCHANGED <<cooling, sent>> /\ code' = [code EXCEPT ![k] = 0]
      BY <1>2, <2>2
    <3>4. RequestsInv /\ CodesInv /\ ConsumesInv
      BY DEF UsersInv
    <3>5. QED
      BY <1>1, <3>1, <3>2, <3>3, <3>4, DropCodes
  <2>3. QED
    BY <2>1, <2>2 DEF Expire
<1>6. QED
  BY <1>1, <1>3, <1>4, <1>5 DEF UsersInv, Harmless

LEMMA VerifyKeeps ==
    ASSUME UsersInv, NEW h \in Handlers, NEW kind \in Kinds, NEW e \in Emails,
           NEW c \in 1 .. sent, Verify(h, kind, e, c)
    PROVE  UsersInv'
<1> DEFINE r == [at |-> "consume", kind |-> kind, email |-> e, code |-> c]
<1>1. /\ sent \in Nat /\ sent <= MaxCodes /\ MaxCodes \in Nat
      /\ c \in 1 .. MaxCodes /\ c <= sent /\ c # 0
  BY UsersAssumption DEF UsersInv, CodesInv
<1>2. /\ code[<<kind, e>>] = c /\ Goes(h, r)
      /\ UNCHANGED <<account, created, otp, tokens, bans>>
  BY DEF Verify
<1>3. SafeShape(r) /\ ConsumeOf(r)
  <2>1. SafeShape(r)
    BY <1>1 DEF SafeShape, UsersShape, SkillsShape, WholeRequest
  <2>2. \A k \in Kinds \X Emails : code[k] = c => k = <<kind, e>>
    BY <1>1, <1>2 DEF UsersInv, CodesInv
  <2>3. QED
    BY <1>1, <2>1, <2>2 DEF ConsumeOf
<1> HIDE DEF r
<1>4. RequestsInv'
  BY <1>2, <1>3, SafeGoes DEF UsersInv
<1>5. /\ request'[h] = r
      /\ \A g \in Handlers : g # h => request'[g] = request[g]
  BY <1>2, GoesFacts DEF UsersInv
<1>6. r.at = "consume"
  BY DEF r
<1>7. ConsumesInv'
  <2>1. ASSUME NEW g \in Handlers
        PROVE  ConsumeOf(request[g])'
    <3>1. CASE g = h
      BY <1>2, <1>3, <1>5, <3>1 DEF ConsumeOf, otp
    <3>2. CASE g # h
      BY <1>2, <1>5, <3>2 DEF UsersInv, ConsumesInv, ConsumeOf, otp
    <3>3. QED
      BY <3>1, <3>2
  <2>2. QED
    BY <2>1 DEF ConsumesInv
<1>8. CodesInv' /\ AccountsInv' /\ BarredInv'
  BY <1>2 DEF UsersInv, CodesInv, AccountsInv, BarredInv, Exists, otp, bans
<1>9. EditsInv'
  BY <1>2, <1>5, <1>6 DEF UsersInv, EditsInv, EditOf, At, bans
<1>10. QED
  BY <1>4, <1>7, <1>8, <1>9 DEF UsersInv

\* The code that is deleted is the one of the key, whoever stored it.
LEMMA ConsumeKeeps ==
    ASSUME UsersInv, NEW h \in Handlers, Consume(h)
    PROVE  UsersInv'
<1> DEFINE k == <<request[h].kind, request[h].email>>
           r == [at |-> IF k[1] = "reg" THEN "register" ELSE "login", email |-> k[2]]
<1>1. request[h] \in [at : {"consume"}, kind : Kinds, email : Emails, code : 1 .. MaxCodes]
  BY PlaceFacts DEF UsersInv, Consume, At, UsersShape
<1>2. k \in Kinds \X Emails /\ k[1] \in Kinds /\ k[2] \in Emails
  BY <1>1
<1>3. SafeShape(r) /\ r.at \notin {"edit", "consume"}
  BY <1>2 DEF SafeShape, UsersShape, SkillsShape, WholeRequest
<1>4. /\ Goes(h, r) /\ code' = [code EXCEPT ![k] = 0]
      /\ spent' = spent \cup ({code[k], request[h].code} \ {0})
      /\ UNCHANGED <<account, created, cooling, sent, tokens, bans>>
  BY DEF Consume, DeletedCode
<1> HIDE DEF k, r
<1>5. Harmless
  BY <1>3, <1>4, HarmlessGoes DEF UsersInv
<1>6. AccountsInv' /\ BarredInv'
  <2>1. UNCHANGED <<account, created, bans>> /\ tokens' \subseteq Ids
    BY <1>4 DEF UsersInv, AccountsInv
  <2>2. QED
    BY <2>1, AccountsStay DEF UsersInv
<1>7. EditsInv'
  BY <1>4, <1>5, EditsStay DEF UsersInv, Harmless
<1>8. request[h].code \in 1 .. sent /\ (\A l \in Kinds \X Emails : code[l] = request[h].code => l = k)
  <2>1. request[h].at = "consume" /\ request[h].code \in 1 .. MaxCodes
    BY <1>1
  <2>2. /\ request[h].code <= sent
        /\ \A l \in Kinds \X Emails :
              code[l] = request[h].code => l = <<request[h].kind, request[h].email>>
    BY <2>1 DEF UsersInv, ConsumesInv, ConsumeOf
  <2>3. sent \in Nat /\ MaxCodes \in Nat
    BY UsersAssumption DEF UsersInv, CodesInv
  <2>4. request[h].code \in 1 .. sent
    BY <2>1, <2>2, <2>3
  <2>5. QED
    BY <2>2, <2>4 DEF k
<1>9. CodesInv' /\ ConsumesInv'
  BY <1>2, <1>4, <1>5, <1>8, DropCodes DEF UsersInv
<1>10. QED
  BY <1>5, <1>6, <1>7, <1>9 DEF UsersInv, Harmless

LEMMA RegisterCheckKeeps ==
    ASSUME UsersInv, NEW h \in Handlers, RegisterCheck(h)
    PROVE  UsersInv'
<1>1. request[h] \in [at : {"register", "insert", "login"}, email : Emails]
  BY PlaceFacts DEF UsersInv, RegisterCheck, At, UsersShape
<1>2. SafeShape([request[h] EXCEPT !.at = "insert"]) /\ [request[h] EXCEPT !.at = "insert"].at = "insert"
  BY <1>1 DEF SafeShape, UsersShape, SkillsShape, WholeRequest
<1>3. Harmless
  BY <1>2, HarmlessGoes, HarmlessEnds DEF UsersInv, RegisterCheck
<1>4. QED
  BY <1>3, RequestKeeps DEF RegisterCheck, UsersInv, AccountsInv

LEMMA RegisterKeeps ==
    ASSUME UsersInv, NEW h \in Handlers, Register(h)
    PROVE  UsersInv'
<1> DEFINE r == [email |-> request[h].email, role |-> RoleFor(request[h].email),
                 status |-> "active", password |-> TRUE, sub |-> "none"]
<1>1. request[h] \in [at : {"register", "insert", "login"}, email : Emails]
  BY PlaceFacts DEF UsersInv, Register, At, UsersShape
<1>2. r \in Row
  BY <1>1 DEF Row, RoleFor, Roles, Statuses
<1>3. Insert(h, r) /\ tokens' = tokens \cup Inserted /\ UNCHANGED <<otp, bounds, bans>>
  BY DEF Register
<1>4. Harmless
  BY HarmlessEnds DEF UsersInv, Register
<1>5. barred' = barred /\ UNCHANGED <<overtaken, revived>>
  BY <1>3 DEF bans
<1> HIDE DEF r
<1>6. QED
  BY <1>2, <1>3, <1>4, <1>5, InsertKeeps

LEMMA LoginKeeps ==
    ASSUME UsersInv, NEW h \in Handlers, NEW e \in Emails, Login(h, e)
    PROVE  UsersInv'
<1>1. Harmless
  BY HarmlessSame DEF UsersInv, Login
<1>2. tokens' \subseteq Ids /\ UNCHANGED <<account, created, otp, bans>>
  BY DEF Login, WithEmail, UsersInv, AccountsInv
<1>3. QED
  BY <1>1, <1>2, RequestKeeps

LEMMA LoginCodeKeeps ==
    ASSUME UsersInv, NEW h \in Handlers, LoginCode(h)
    PROVE  UsersInv'
<1>1. Harmless
  BY HarmlessEnds DEF UsersInv, LoginCode
<1>2. tokens' \subseteq Ids /\ UNCHANGED <<account, created, otp, bans>>
  BY DEF LoginCode, WithEmail, UsersInv, AccountsInv
<1>3. QED
  BY <1>1, <1>2, RequestKeeps

LEMMA GoogleBySubKeeps ==
    ASSUME UsersInv, NEW h \in Handlers, NEW s \in Subs, GoogleBySub(h, s)
    PROVE  UsersInv'
<1>1. SafeShape([at |-> "google", sub |-> s])
  BY DEF SafeShape, UsersShape, SkillsShape, WholeRequest
<1>2. Harmless
  BY <1>1, HarmlessGoes, HarmlessSame DEF UsersInv, GoogleBySub
<1>3. tokens' \subseteq Ids /\ UNCHANGED <<account, created, otp, bans>>
  BY DEF GoogleBySub, WithSub, UsersInv, AccountsInv
<1>4. QED
  BY <1>2, <1>3, RequestKeeps

LEMMA GoogleByEmailKeeps ==
    ASSUME UsersInv, NEW h \in Handlers, GoogleByEmail(h)
    PROVE  UsersInv'
<1>1. request[h].sub \in Subs
  <2>1. request[h] \in [at : {"google", "google_insert"}, sub : Subs]
    BY PlaceFacts DEF UsersInv, GoogleByEmail, At, UsersShape
  <2>2. QED
    BY <2>1
<1>2. /\ SafeShape([at |-> "google_insert", sub |-> request[h].sub])
      /\ \A u \in Ids : SafeShape([at |-> "google_link", sub |-> request[h].sub, user |-> u])
  BY <1>1 DEF SafeShape, UsersShape, SkillsShape, WholeRequest
<1>3. \/ Goes(h, [at |-> "google_insert", sub |-> request[h].sub])
      \/ \E u \in Ids : Goes(h, [at |-> "google_link", sub |-> request[h].sub, user |-> u])
      \/ Ends(h)
  BY DEF GoogleByEmail, WithEmail
<1>4. Harmless
  <2>1. CASE Goes(h, [at |-> "google_insert", sub |-> request[h].sub])
    BY <1>2, <2>1, HarmlessGoes DEF UsersInv
  <2>2. CASE \E u \in Ids : Goes(h, [at |-> "google_link", sub |-> request[h].sub, user |-> u])
    <3>1. PICK u \in Ids : Goes(h, [at |-> "google_link", sub |-> request[h].sub, user |-> u])
      BY <2>2
    <3>2. QED
      BY <1>2, <3>1, HarmlessGoes DEF UsersInv
  <2>3. QED
    BY <1>3, <2>1, <2>2, HarmlessEnds DEF UsersInv
<1>5. QED
  BY <1>4, RequestKeeps DEF GoogleByEmail, UsersInv, AccountsInv

\* The link changes the subject of the row alone.
LEMMA GoogleLinkKeeps ==
    ASSUME UsersInv, NEW h \in Handlers, GoogleLink(h)
    PROVE  UsersInv'
<1>1. request[h].sub \in Subs /\ request[h].user \in Ids
  <2>1. request[h] \in [at : {"google_link"}, sub : Subs, user : Ids]
    BY PlaceFacts DEF UsersInv, GoogleLink, At, UsersShape
  <2>2. QED
    BY <2>1
<1>2. Harmless
  BY HarmlessEnds DEF UsersInv, GoogleLink
<1>3. tokens' \subseteq Ids /\ UNCHANGED <<created, otp, bans>>
  BY <1>1 DEF GoogleLink, UsersInv, AccountsInv
<1>4. CASE UNCHANGED account
  BY <1>2, <1>3, <1>4, RequestKeeps
<1>5. CASE /\ Exists(request[h].user)
           /\ account' = [account EXCEPT ![request[h].user].sub = request[h].sub]
  <2>1. account[request[h].user] \in Row
    BY <1>1, <1>5 DEF UsersInv, AccountsInv, Exists
  <2>2. [account[request[h].user] EXCEPT !.sub = request[h].sub] \in Row
        /\ [account[request[h].user] EXCEPT !.sub = request[h].sub].status
              = account[request[h].user].status
    BY <1>1, <2>1 DEF Row
  <2>3. account' = [account EXCEPT ![request[h].user] =
                      [account[request[h].user] EXCEPT !.sub = request[h].sub]]
    BY <1>5
  <2>4. QED
    BY <1>1, <1>2, <1>3, <1>5, <2>2, <2>3, RowKeeps
<1>6. QED
  BY <1>4, <1>5 DEF GoogleLink

LEMMA GoogleInsertKeeps ==
    ASSUME UsersInv, NEW h \in Handlers, GoogleInsert(h)
    PROVE  UsersInv'
<1> DEFINE e == SubEmail[request[h].sub]
           r == [email |-> e, role |-> RoleFor(e), status |-> "active",
                 password |-> FALSE, sub |-> request[h].sub]
<1>1. request[h].sub \in Subs
  <2>1. request[h] \in [at : {"google", "google_insert"}, sub : Subs]
    BY PlaceFacts DEF UsersInv, GoogleInsert, At, UsersShape
  <2>2. QED
    BY <2>1
<1>2. r \in Row
  <2>1. e \in Emails
    BY <1>1, UsersAssumption
  <2>2. QED
    BY <1>1, <2>1 DEF Row, RoleFor, Roles, Statuses
<1>3. Insert(h, r) /\ tokens' = tokens \cup Inserted /\ UNCHANGED <<otp, bounds, bans>>
  BY DEF GoogleInsert
<1>4. Harmless
  BY HarmlessEnds DEF UsersInv, GoogleInsert
<1>5. barred' = barred /\ UNCHANGED <<overtaken, revived>>
  BY <1>3 DEF bans
<1> HIDE DEF r
<1>6. QED
  BY <1>2, <1>3, <1>4, <1>5, InsertKeeps

LEMMA AuthenticateKeeps ==
    ASSUME UsersInv, NEW h \in Handlers, NEW u \in Ids, Authenticate(h, u)
    PROVE  UsersInv'
<1>1. account[u].role \in Roles
  <2>1. account[u] \in Row
    BY DEF UsersInv, AccountsInv, Authenticate, Admitted, Exists
  <2>2. QED
    BY <2>1 DEF Row
<1>2. SafeShape([at |-> "authed", user |-> u, role |-> account[u].role])
  BY <1>1 DEF SafeShape, UsersShape, SkillsShape, WholeRequest
<1>3. Harmless
  BY <1>2, HarmlessGoes DEF UsersInv, Authenticate
<1>4. QED
  BY <1>3, RequestKeeps DEF Authenticate, UsersInv, AccountsInv

LEMMA AuthedFacts ==
    ASSUME RequestsInv, NEW h \in Handlers, At(h, "authed")
    PROVE  Me(h) \in Ids /\ request[h].role \in Roles
<1>1. request[h] \in [at : {"authed"}, user : Ids, role : Roles]
  BY PlaceFacts DEF At, UsersShape
<1>2. QED
  BY <1>1 DEF Me

\* Setting a password leaves the status of the row.
LEMMA PasswordKeeps ==
    ASSUME UsersInv, Harmless, NEW u \in Ids, Exists(u),
           account' = [account EXCEPT ![u].password = TRUE],
           UNCHANGED <<created, otp, tokens, bans>>
    PROVE  UsersInv'
<1>1. account[u] \in Row
  BY DEF UsersInv, AccountsInv, Exists
<1>2. [account[u] EXCEPT !.password = TRUE] \in Row
      /\ [account[u] EXCEPT !.password = TRUE].status = account[u].status
  BY <1>1 DEF Row
<1>3. account' = [account EXCEPT ![u] = [account[u] EXCEPT !.password = TRUE]]
  OBVIOUS
<1>4. tokens' \subseteq Ids
  BY DEF UsersInv, AccountsInv
<1>5. UNCHANGED <<otp, created>> /\ UNCHANGED bans
  OBVIOUS
<1>6. QED
  BY <1>2, <1>3, <1>4, <1>5, RowKeeps

LEMMA ChangePasswordKeeps ==
    ASSUME UsersInv, NEW h \in Handlers, ChangePassword(h)
    PROVE  UsersInv'
<1>1. Me(h) \in Ids
  BY AuthedFacts DEF UsersInv, ChangePassword
<1>2. Harmless
  BY HarmlessEnds DEF UsersInv, ChangePassword
<1>3. CASE Exists(Me(h))
  BY <1>1, <1>2, <1>3, PasswordKeeps DEF ChangePassword
<1>4. CASE ~Exists(Me(h))
  BY <1>2, <1>4, RequestKeeps DEF ChangePassword, UsersInv, AccountsInv
<1>5. QED
  BY <1>3, <1>4

LEMMA ResetPasswordKeeps ==
    ASSUME UsersInv, NEW h \in Handlers, NEW u \in Ids, ResetPassword(h, u)
    PROVE  UsersInv'
<1>1. Harmless
  BY HarmlessEnds DEF UsersInv, ResetPassword
<1>2. QED
  BY <1>1, PasswordKeeps DEF ResetPassword

LEMMA AdminCreateKeeps ==
    ASSUME UsersInv, NEW h \in Handlers, NEW e \in Emails, NEW role \in Roles,
           NEW status \in Statuses, AdminCreate(h, e, role, status)
    PROVE  UsersInv'
<1>1. SafeShape([at |-> "admin_insert", email |-> e, role |-> role, status |-> status])
  BY DEF SafeShape, UsersShape, SkillsShape, WholeRequest
<1>2. Harmless
  BY <1>1, HarmlessGoes DEF UsersInv, AdminCreate
<1>3. QED
  BY <1>2, RequestKeeps DEF AdminCreate, UsersInv, AccountsInv

LEMMA AdminInsertKeeps ==
    ASSUME UsersInv, NEW h \in Handlers, AdminInsert(h)
    PROVE  UsersInv'
<1> DEFINE r == [email |-> request[h].email, role |-> request[h].role,
                 status |-> request[h].status, password |-> TRUE, sub |-> "none"]
<1>1. request[h] \in [at : {"admin_insert"}, email : Emails, role : Roles, status : Statuses]
  BY PlaceFacts DEF UsersInv, AdminInsert, At, UsersShape
<1>2. r \in Row /\ r.status = request[h].status
  BY <1>1 DEF Row
<1>3. /\ Insert(h, r) /\ UNCHANGED <<otp, tokens>> /\ UNCHANGED <<overtaken, revived>>
      /\ barred' = barred \/ (barred' = barred \cup Inserted /\ request[h].status = "disabled")
  BY DEF AdminInsert
<1>4. Harmless
  BY HarmlessEnds DEF UsersInv, AdminInsert
<1> HIDE DEF r
<1>5. tokens' \subseteq tokens \cup Inserted /\ UNCHANGED otp
  BY <1>3
<1>6. barred' = barred \/ (barred' = barred \cup Inserted /\ r.status = "disabled")
  BY <1>2, <1>3
<1>7. QED
  BY <1>2, <1>3, <1>4, <1>5, <1>6, InsertKeeps

\* A deleted account stays deleted.
LEMMA DeleteUserKeeps ==
    ASSUME UsersInv, NEW h \in Handlers, NEW u \in Ids, DeleteUser(h, u)
    PROVE  UsersInv'
<1>1. Harmless
  BY HarmlessEnds DEF UsersInv, DeleteUser
<1>2. /\ account' = [account EXCEPT ![u] = NoRow] /\ barred' = barred \ {u}
      /\ UNCHANGED <<created, otp, tokens>> /\ UNCHANGED <<overtaken, revived>>
  BY DEF DeleteUser
<1>3. /\ account \in [Ids -> Row \cup {NoRow}] /\ created \in 0 .. MaxAccounts
      /\ created \in Nat /\ barred \subseteq 1 .. created /\ tokens \subseteq Ids
  BY DEF UsersInv, AccountsInv
<1>4. /\ account' \in [Ids -> Row \cup {NoRow}]
      /\ \A v \in Ids : account'[v] # NoRow => account'[v] = account[v] /\ Exists(v)
  BY <1>2, <1>3 DEF Exists
<1>5. \A v \in Ids : account'[v] # NoRow => v <= created'
  BY <1>2, <1>4 DEF UsersInv, AccountsInv
<1>6. barred \subseteq Ids
  BY <1>3, UsersAssumption DEF Ids
<1>7. \A v \in barred' \ revived' :
         account'[v] # NoRow => account'[v].status = "disabled"
  BY <1>2, <1>4, <1>6 DEF UsersInv, BarredInv
<1>8. /\ barred' \subseteq 1 .. created' /\ tokens' \subseteq Ids
      /\ created' \in 0 .. MaxAccounts /\ created <= created'
      /\ \A v \in barred' : v \in barred \/ v > created
  <2>1. created' = created /\ tokens' = tokens /\ barred' \subseteq barred
    BY <1>2
  <2>2. created \in Nat /\ created \in 0 .. MaxAccounts /\ barred \subseteq 1 .. created
    BY <1>3
  <2>3. created <= created
    BY <2>2
  <2>4. QED
    BY <1>3, <2>1, <2>2, <2>3
<1>9. UNCHANGED otp
  BY <1>2
<1>10. QED
  BY <1>1, <1>2, <1>4, <1>5, <1>7, <1>8, <1>9, AccountKeeps

\* What the edit leaves out is read: over a disabled account it is "disabled".
LEMMA PatchReadKeeps ==
    ASSUME UsersInv, NEW h \in Handlers, NEW u \in Ids,
           NEW role \in Roles \cup {"same"}, NEW status \in Statuses \cup {"same"},
           PatchRead(h, u, role, status)
    PROVE  UsersInv'
<1> DEFINE r == [at |-> "edit", target |-> u, asked |-> status,
                 role |-> IF role = "same" THEN account[u].role ELSE role,
                 status |-> IF status = "same" THEN account[u].status ELSE status]
<1>1. account[u] \in Row /\ Exists(u)
  BY DEF UsersInv, AccountsInv, PatchRead, Exists
<1>2. account[u].role \in Roles /\ account[u].status \in Statuses
  BY <1>1 DEF Row
<1>3. SafeShape(r)
  BY <1>2 DEF SafeShape, UsersShape, SkillsShape, WholeRequest, Statuses
<1>4. /\ u <= created /\ (r.asked # "same" => r.status = r.asked)
      /\ r.asked = "same" /\ u \in barred \ revived => r.status = "disabled"
  BY <1>1 DEF UsersInv, AccountsInv, BarredInv
<1>5. Goes(h, r) /\ UNCHANGED <<account, created, otp, tokens, bans>>
  BY DEF PatchRead
<1>6. r.at = "edit" /\ r.target = u
  OBVIOUS
<1> HIDE DEF r
<1>7. RequestsInv'
  BY <1>3, <1>5, SafeGoes DEF UsersInv
<1>8. /\ request'[h] = r
      /\ \A g \in Handlers : g # h => request'[g] = request[g]
  BY <1>5, GoesFacts DEF UsersInv
<1>9. EditsInv'
  <2>1. ASSUME NEW g \in Handlers
        PROVE  EditOf(g)'
    <3>1. CASE g = h
      BY <1>4, <1>5, <1>6, <1>8, <3>1 DEF EditOf, bans
    <3>2. CASE g # h
      BY <1>5, <1>8, <3>2 DEF UsersInv, EditsInv, EditOf, At, bans
    <3>3. QED
      BY <3>1, <3>2
  <2>3. ASSUME NEW g \in Handlers, request'[g].at = "edit"
        PROVE  request'[g].target <= created'
    <3>1. CASE g = h
      BY <1>4, <1>5, <1>6, <1>8, <3>1
    <3>2. CASE g # h
      BY <1>5, <1>8, <2>3, <3>2 DEF UsersInv, EditsInv, At
    <3>3. QED
      BY <3>1, <3>2
  <2>4. QED
    BY <2>1, <2>3 DEF EditsInv, At
<1>10. CodesInv' /\ AccountsInv' /\ BarredInv'
  BY <1>5 DEF UsersInv, CodesInv, AccountsInv, BarredInv, Exists, otp, bans
<1>11. ConsumesInv'
  BY <1>5, <1>6, <1>8 DEF UsersInv, ConsumesInv, ConsumeOf, otp
<1>12. QED
  BY <1>7, <1>9, <1>10, <1>11 DEF UsersInv

\* The status that is written over a disabled account is "disabled", or an
\* admin asked for another one, or the edit was overtaken.
LEMMA PatchWriteKeeps ==
    ASSUME UsersInv, NEW h \in Handlers, PatchWrite(h)
    PROVE  UsersInv'
<1> DEFINE r == request[h]
           u == request[h].target
<1>1. /\ r.at = "edit"
      /\ r \in [at : {"edit"}, target : Ids, asked : Statuses \cup {"same"},
                role : Roles, status : Statuses]
  BY PlaceFacts DEF UsersInv, PatchWrite, At, UsersShape
<1>2. /\ u \in Ids /\ r.asked \in Statuses \cup {"same"} /\ r.role \in Roles
      /\ r.status \in Statuses
  BY <1>1
<1>3. u <= created
  BY <1>1 DEF UsersInv, EditsInv, At
<1>3a. r.asked # "same" => r.status = r.asked
  BY <1>1 DEF UsersInv, EditsInv, EditOf, At
<1>3b. r.asked = "same" /\ u \in barred \ revived => r.status = "disabled" \/ h \in overtaken
  BY <1>1 DEF UsersInv, EditsInv, EditOf, At
<1>4. /\ account' = IF Exists(u) THEN [account EXCEPT ![u].role = r.role, ![u].status = r.status]
                   ELSE account
      /\ barred' = CASE r.asked = "disabled" /\ Exists(u) -> barred \cup {u}
                     [] r.asked = "active" -> barred \ {u}
                     [] OTHER -> barred
      /\ overtaken' = (IF r.asked = "disabled" THEN overtaken \cup Editors(u)
                       ELSE overtaken) \ {h}
      /\ revived' = CASE r.asked # "same" -> revived \ {u}
                      [] r.asked = "same" /\ h \in overtaken /\ r.status = "active"
                            -> revived \cup {u}
                      [] OTHER -> revived
      /\ Ends(h) /\ UNCHANGED <<created, otp, tokens>>
  BY DEF PatchWrite
<1>5. \A g \in Handlers : At(g, "edit") /\ request[g].target = u => g \in Editors(u)
  BY DEF Editors
<1> HIDE DEF r, u
<1>6. Harmless
  BY <1>4, HarmlessEnds DEF UsersInv
<1>7. /\ account \in [Ids -> Row \cup {NoRow}] /\ created \in 0 .. MaxAccounts
      /\ created \in Nat /\ barred \subseteq 1 .. created /\ tokens \subseteq Ids
      /\ \A v \in Ids : Exists(v) => v <= created
  BY DEF UsersInv, AccountsInv
<1>8. created' = created /\ tokens' = tokens /\ UNCHANGED otp
  BY <1>4
<1>9. barred' \subseteq barred \cup {u} /\ u \in 1 .. created
  <2>1. barred' \subseteq barred \cup {u}
    BY <1>2, <1>4
  <2>2. u \in Nat /\ 1 <= u
    BY <1>2 DEF Ids
  <2>3. QED
    BY <1>3, <1>7, <2>1, <2>2
<1>10. /\ account' \in [Ids -> Row \cup {NoRow}]
       /\ \A v \in Ids : v # u => account'[v] = account[v]
       /\ \A v \in Ids : account'[v] # NoRow => Exists(v)
       /\ Exists(u) => account'[u].status = r.status
  <2>1. CASE ~Exists(u)
    BY <1>4, <1>7, <2>1 DEF Exists
  <2>2. CASE Exists(u)
    <3>1. account[u] \in Row
      BY <1>2, <1>7, <2>2 DEF Exists
    <3>2. [account[u] EXCEPT !.role = r.role, !.status = r.status] \in Row
          /\ [account[u] EXCEPT !.role = r.role, !.status = r.status].status = r.status
      BY <1>2, <3>1 DEF Row
    <3>3. account' = [account EXCEPT ![u] =
                        [account[u] EXCEPT !.role = r.role, !.status = r.status]]
      BY <1>2, <1>4, <1>7, <2>2
    <3>4. QED
      BY <1>2, <1>7, <2>2, <3>2, <3>3 DEF Exists
  <2>3. QED
    BY <2>1, <2>2
<1>10a. /\ revived' \subseteq Ids /\ overtaken' \subseteq Handlers
        /\ \A v : v # u => (v \in revived' <=> v \in revived)
        /\ \A g : g # h /\ g \in overtaken => g \in overtaken'
        /\ r.asked = "disabled" => \A g \in Editors(u) : g # h => g \in overtaken'
        /\ r.asked = "same" =>
              /\ barred' = barred
              /\ u \notin revived' => u \notin revived /\ ~(h \in overtaken /\ r.status = "active")
        /\ r.asked = "active" => u \notin barred'
  <2>1. revived \subseteq Ids /\ overtaken \subseteq Handlers
    BY DEF UsersInv, AccountsInv
  <2>2. CASE r.asked = "same"
    BY <1>2, <1>4, <2>1, <2>2
  <2>3. CASE r.asked = "disabled"
    BY <1>2, <1>4, <2>1, <2>3 DEF Editors
  <2>4. CASE r.asked = "active"
    BY <1>2, <1>4, <2>1, <2>4
  <2>5. QED
    BY <1>2, <2>2, <2>3, <2>4 DEF Statuses
<1>11. AccountsInv'
  <2>1. \A v \in Ids : account'[v] # NoRow => v <= created
    BY <1>7, <1>10
  <2>2. barred' \subseteq 1 .. created
    BY <1>7, <1>9
  <2>3. QED
    BY <1>7, <1>8, <1>10, <1>10a, <2>1, <2>2 DEF AccountsInv, Exists
<1>12. BarredInv'
  <2>1. ASSUME NEW v \in barred' \ revived', account'[v] # NoRow
        PROVE  account'[v].status = "disabled"
    <3>1. v \in Ids
      BY <1>7, <1>9, UsersAssumption DEF Ids
    <3>2. CASE v # u
      <4>1. v \in barred \ revived /\ account'[v] = account[v]
        BY <1>9, <1>10, <1>10a, <2>1, <3>1, <3>2
      <4>2. QED
        BY <2>1, <4>1 DEF UsersInv, BarredInv, Exists
    <3>3. CASE v = u
      <4>1. Exists(u) /\ account'[u].status = r.status
        BY <1>10, <2>1, <3>1, <3>3
      <4>2. \/ r.asked = "disabled"
            \/ /\ r.asked = "same" /\ u \in barred \ revived
               /\ ~(h \in overtaken /\ r.status = "active")
        BY <1>2, <1>10a, <2>1, <3>3 DEF Statuses
      <4>3. r.status = "disabled"
        BY <1>2, <1>3a, <1>3b, <4>2 DEF Statuses
      <4>4. QED
        BY <3>3, <4>1, <4>3
    <3>4. QED
      BY <3>2, <3>3
  <2>2. QED
    BY <2>1 DEF BarredInv, Exists
<1>13. EditsInv'
  <2>1. /\ request'[h] = Idle
        /\ \A g \in Handlers : g # h => request'[g] = request[g]
    BY <1>4, GoesFacts DEF UsersInv, Ends
  <2>2. ASSUME NEW g \in Handlers
        PROVE  EditOf(g)'
    <3>1. SUFFICES ASSUME request'[g].at = "edit"
                   PROVE  EditOf(g)'
      BY DEF EditOf, At
    <3>2. g # h /\ request'[g] = request[g] /\ At(g, "edit")
      BY <2>1, <3>1, IdleIsSafe DEF At
    <3>3. request[g].asked # "same" => request[g].status = request[g].asked
      BY <3>2 DEF UsersInv, EditsInv, EditOf
    <3>4. ASSUME request[g].asked = "same", request[g].target \in barred' \ revived'
          PROVE  request[g].status = "disabled" \/ g \in overtaken'
      <4>1. CASE request[g].target \in barred \ revived
        BY <1>10a, <3>2, <3>4, <4>1 DEF UsersInv, EditsInv, EditOf
      <4>2. CASE request[g].target \notin barred \ revived
        <5>1. request[g].target = u
          BY <1>9, <1>10a, <3>4, <4>2
        <5>2. r.asked = "disabled"
          BY <1>2, <1>10a, <3>4, <4>2, <5>1 DEF Statuses
        <5>3. QED
          BY <1>5, <1>10a, <3>2, <5>1, <5>2
      <4>3. QED
        BY <4>1, <4>2
    <3>5. QED
      BY <3>2, <3>3, <3>4 DEF EditOf, At
  <2>4. \A g \in Handlers : request'[g].at = "edit" => request'[g].target <= created'
    BY <1>8, <2>1, IdleIsSafe DEF UsersInv, EditsInv, At
  <2>5. QED
    BY <2>2, <2>4 DEF EditsInv, At
<1>14. CodesInv' /\ ConsumesInv'
  BY <1>6, <1>8, ConsumesKept DEF UsersInv, Harmless
<1>15. QED
  BY <1>6, <1>11, <1>12, <1>13, <1>14 DEF UsersInv, Harmless

LEMMA HandlerStepKeeps ==
    ASSUME UsersInv, HandlerStep
    PROVE  UsersInv'
<1>1. PICK h \in Handlers : CodeStep(h) \/ LoginStep(h) \/ AdminStep(h)
  BY DEF HandlerStep
<1>2. CASE CodeStep(h)
  BY <1>2, SendCodeKeeps, VerifyKeeps, CheckCooldownKeeps, StoreCodeKeeps, StartCooldownKeeps,
     ConsumeKeeps DEF CodeStep
<1>3. CASE LoginStep(h)
  BY <1>3, RegisterCheckKeeps, RegisterKeeps, LoginCodeKeeps, LoginKeeps, GoogleBySubKeeps,
     GoogleByEmailKeeps, GoogleLinkKeeps, GoogleInsertKeeps, AuthenticateKeeps,
     ChangePasswordKeeps DEF LoginStep
<1>4. CASE AdminStep(h)
  BY <1>4, AdminCreateKeeps, PatchReadKeeps, ResetPasswordKeeps, DeleteUserKeeps,
     AdminInsertKeeps, PatchWriteKeeps DEF AdminStep
<1>5. QED
  BY <1>1, <1>2, <1>3, <1>4

LEMMA RestartKeeps ==
    ASSUME UsersInv, Restart
    PROVE  UsersInv'
<1>1. /\ request' = [h \in Handlers |-> Idle] /\ overtaken' = {}
      /\ UNCHANGED <<account, created, otp, tokens, barred, revived>>
  BY DEF Restart
<1>2. \A h \in Handlers : request'[h] = Idle
  BY <1>1
<1>3. Harmless
  <2>1. RequestsInv'
    BY <1>1, <1>2, IdleIsSafe DEF RequestsInv, SafeShape
  <2>2. NoNewDuty
    BY <1>2, IdleIsSafe DEF NoNewDuty
  <2>3. QED
    BY <2>1, <2>2 DEF Harmless
<1>4. AccountsInv' /\ BarredInv'
  BY <1>1 DEF UsersInv, AccountsInv, BarredInv, Exists
<1>5. EditsInv'
  BY <1>2, IdleIsSafe DEF EditsInv, EditOf, At
<1>6. CodesInv' /\ ConsumesInv'
  BY <1>1, <1>3, ConsumesKept DEF UsersInv, Harmless
<1>7. QED
  BY <1>3, <1>4, <1>5, <1>6 DEF UsersInv, Harmless

-----------------------------------------------------------------------------
(* The steps of Users leave skills that wait to be inserted alone *)

NoNewInsert ==
    \A g \in Handlers : request'[g] = request[g] \/ request'[g].at # "skill_insert"

LEMMA NoInsertGoes ==
    ASSUME RequestsInv, NEW h \in Handlers, NEW r, Goes(h, r), r.at # "skill_insert"
    PROVE  NoNewInsert
BY GoesFacts DEF NoNewInsert

LEMMA NoInsertEnds ==
    ASSUME RequestsInv, NEW h \in Handlers, Ends(h)
    PROVE  NoNewInsert
BY NoInsertGoes, IdleIsSafe DEF Ends

LEMMA NoInsertSame ==
    ASSUME UNCHANGED request
    PROVE  NoNewInsert
BY DEF NoNewInsert

LEMMA CodesInsertNoSkill ==
    ASSUME RequestsInv, NEW h \in Handlers, CodeStep(h)
    PROVE  NoNewInsert
<1>1. ASSUME NEW kind \in Kinds, NEW e \in Emails, SendCode(h, kind, e)
      PROVE  NoNewInsert
  <2>1. [at |-> "cooldown", kind |-> kind, email |-> e].at # "skill_insert"
    OBVIOUS
  <2>2. QED
    BY <1>1, <2>1, NoInsertGoes DEF SendCode
<1>2. ASSUME NEW kind \in Kinds, NEW e \in Emails, NEW c \in 1 .. sent, Verify(h, kind, e, c)
      PROVE  NoNewInsert
  <2>1. [at |-> "consume", kind |-> kind, email |-> e, code |-> c].at # "skill_insert"
    OBVIOUS
  <2>2. QED
    BY <1>2, <2>1, NoInsertGoes DEF Verify
<1>3. ASSUME At(h, "cooldown") \/ At(h, "store"), NEW place \in {"store", "cool"},
             Goes(h, [request[h] EXCEPT !.at = place])
      PROVE  NoNewInsert
  <2>1. request[h] \in [at : {"cooldown", "store", "cool"}, kind : Kinds, email : Emails]
    BY <1>3, PlaceFacts DEF At, UsersShape
  <2>2. [request[h] EXCEPT !.at = place].at # "skill_insert"
    BY <2>1
  <2>3. QED
    BY <1>3, <2>2, NoInsertGoes
<1>4. CASE CheckCooldown(h)
  BY <1>3, <1>4, NoInsertEnds DEF CheckCooldown
<1>5. CASE StoreCode(h)
  BY <1>3, <1>5 DEF StoreCode
<1>6. CASE StartCooldown(h)
  BY <1>6, NoInsertEnds DEF StartCooldown
<1>7. CASE Consume(h)
  <2>1. \A e : /\ [at |-> "register", email |-> e].at # "skill_insert"
               /\ [at |-> "login", email |-> e].at # "skill_insert"
    OBVIOUS
  <2>2. \E e : \/ Goes(h, [at |-> "register", email |-> e])
               \/ Goes(h, [at |-> "login", email |-> e])
    BY <1>7 DEF Consume
  <2>3. QED
    BY <2>1, <2>2, NoInsertGoes
<1>8. QED
  BY <1>1, <1>2, <1>4, <1>5, <1>6, <1>7 DEF CodeStep

LEMMA LoginsInsertNoSkill ==
    ASSUME RequestsInv, NEW h \in Handlers, LoginStep(h)
    PROVE  NoNewInsert
<1>1. CASE RegisterCheck(h)
  <2>1. request[h] \in [at : {"register", "insert", "login"}, email : Emails]
    BY <1>1, PlaceFacts DEF RegisterCheck, At, UsersShape
  <2>2. [request[h] EXCEPT !.at = "insert"].at # "skill_insert"
    BY <2>1
  <2>3. QED
    BY <1>1, <2>2, NoInsertGoes, NoInsertEnds DEF RegisterCheck
<1>2. CASE Register(h) \/ LoginCode(h) \/ GoogleLink(h) \/ GoogleInsert(h) \/ ChangePassword(h)
  BY <1>2, NoInsertEnds DEF Register, LoginCode, GoogleLink, GoogleInsert, ChangePassword
<1>3. ASSUME NEW e \in Emails, Login(h, e)
      PROVE  NoNewInsert
  BY <1>3, NoInsertSame DEF Login
<1>4. ASSUME NEW s \in Subs, GoogleBySub(h, s)
      PROVE  NoNewInsert
  <2>1. [at |-> "google", sub |-> s].at # "skill_insert"
    OBVIOUS
  <2>2. QED
    BY <1>4, <2>1, NoInsertGoes, NoInsertSame DEF GoogleBySub
<1>5. CASE GoogleByEmail(h)
  <2>1. \A s, u : /\ [at |-> "google_insert", sub |-> s].at # "skill_insert"
                  /\ [at |-> "google_link", sub |-> s, user |-> u].at # "skill_insert"
    OBVIOUS
  <2>2. \/ Ends(h)
        \/ \E s, u : \/ Goes(h, [at |-> "google_insert", sub |-> s])
                     \/ Goes(h, [at |-> "google_link", sub |-> s, user |-> u])
    BY <1>5 DEF GoogleByEmail
  <2>3. QED
    BY <2>1, <2>2, NoInsertGoes, NoInsertEnds
<1>6. ASSUME NEW u \in Ids, Authenticate(h, u)
      PROVE  NoNewInsert
  <2>1. [at |-> "authed", user |-> u, role |-> account[u].role].at # "skill_insert"
    OBVIOUS
  <2>2. QED
    BY <1>6, <2>1, NoInsertGoes DEF Authenticate
<1>7. QED
  BY <1>1, <1>2, <1>3, <1>4, <1>5, <1>6 DEF LoginStep

LEMMA AdminsInsertNoSkill ==
    ASSUME RequestsInv, NEW h \in Handlers, AdminStep(h)
    PROVE  NoNewInsert
<1>1. ASSUME NEW e \in Emails, NEW role \in Roles, NEW status \in Statuses,
             AdminCreate(h, e, role, status)
      PROVE  NoNewInsert
  <2>1. [at |-> "admin_insert", email |-> e, role |-> role, status |-> status].at # "skill_insert"
    OBVIOUS
  <2>2. QED
    BY <1>1, <2>1, NoInsertGoes DEF AdminCreate
<1>2. ASSUME NEW u \in Ids, NEW role, NEW status, PatchRead(h, u, role, status)
      PROVE  NoNewInsert
  <2>1. \A a, b : [at |-> "edit", target |-> u, asked |-> status, role |-> a, status |-> b].at
                    # "skill_insert"
    OBVIOUS
  <2>2. \E a, b : Goes(h, [at |-> "edit", target |-> u, asked |-> status,
                           role |-> a, status |-> b])
    BY <1>2 DEF PatchRead
  <2>3. QED
    BY <2>1, <2>2, NoInsertGoes
<1>3. CASE AdminInsert(h) \/ PatchWrite(h)
  BY <1>3, NoInsertEnds DEF AdminInsert, PatchWrite
<1>4. ASSUME NEW u \in Ids, ResetPassword(h, u) \/ DeleteUser(h, u)
      PROVE  NoNewInsert
  BY <1>4, NoInsertEnds DEF ResetPassword, DeleteUser
<1>5. QED
  BY <1>1, <1>2, <1>3, <1>4 DEF AdminStep

-----------------------------------------------------------------------------
(* Skills while accounts change *)

LEMMA VersionsKept ==
    ASSUME VersionsInv, SkillsInv, RequestsInv', NoNewInsert, made' \in Nat, made <= made'
    PROVE  VersionsInv'
<1>1. ASSUME NEW g \in Handlers, request'[g].at = "skill_insert"
      PROVE  request'[g].row.version <= made' + 1
  <2>1. request'[g] = request[g]
    BY <1>1 DEF NoNewInsert
  <2>2. request[g].row.version <= made + 1
    BY <1>1, <2>1 DEF VersionsInv, VersionOf
  <2>3. request[g].row.version \in Nat
    <3>1. request'[g] \in [at : {"skill_insert"}, role : Roles, made_by : {"manual", "generated"},
              row : [owner : Ids, name : Names, visibility : Visibilities,
                     source : {"manual", "generated", "official"},
                     version : 1 .. MaxSkills + 1, package : Packages]]
      BY <1>1 DEF RequestsInv, SkillsShape
    <3>2. request'[g].row \in [owner : Ids, name : Names, visibility : Visibilities,
                     source : {"manual", "generated", "official"},
                     version : 1 .. MaxSkills + 1, package : Packages]
      BY <3>1
    <3>3. request'[g].row.version \in 1 .. MaxSkills + 1
      BY <3>2
    <3>4. QED
      BY <2>1, <3>3, SkillsAssumption
  <2>4. made \in Nat
    BY DEF SkillsInv
  <2>5. QED
    BY <2>1, <2>2, <2>3, <2>4
<1>2. QED
  BY <1>1 DEF VersionsInv, VersionOf

\* Skills whose owner is deleted stay, and its switches go.
LEMMA OrphanedKeeps ==
    ASSUME PackagesInv, RequestsInv', NoNewInsert, Orphaned, UNCHANGED <<made, chosen, origins>>
    PROVE  PackagesInv'
<1>1. /\ skill \in [SkillIds -> SkillRow \cup {NoSkill}]
      /\ enabled \in [Pairs -> {"none", "on", "off"}] /\ made \in Nat
  BY DEF PackagesInv, SkillsInv
<1>2. ASSUME NEW s \in SkillIds
      PROVE  /\ skill[s] = NoSkill => skill'[s] = NoSkill
             /\ skill[s] # NoSkill =>
                   /\ skill'[s] \in SkillRow /\ skill'[s] # NoSkill
                   /\ skill'[s].version = skill[s].version
                   /\ skill'[s].visibility = skill[s].visibility
                   /\ skill'[s].package = skill[s].package
  <2>1. skill'[s] = IF Stored(s) /\ skill[s].owner # 0 /\ account'[skill[s].owner] = NoRow
                    THEN [skill[s] EXCEPT !.owner = 0] ELSE skill[s]
    BY DEF Orphaned
  <2>2. CASE skill[s] = NoSkill
    BY <2>1, <2>2 DEF Stored
  <2>3. CASE skill[s] # NoSkill
    <3>1. skill[s] \in SkillRow
      BY <1>1, <2>3
    <3>2. /\ [skill[s] EXCEPT !.owner = 0] \in SkillRow
          /\ [skill[s] EXCEPT !.owner = 0].version = skill[s].version
          /\ [skill[s] EXCEPT !.owner = 0].visibility = skill[s].visibility
          /\ [skill[s] EXCEPT !.owner = 0].package = skill[s].package
      BY <3>1 DEF SkillRow
    <3>3. skill'[s] # NoSkill
      BY <2>1, <2>3, <3>2, SkillIsSome
    <3>4. QED
      BY <2>1, <2>3, <3>1, <3>2, <3>3
  <2>4. QED
    BY <2>2, <2>3
<1>3. skill' \in [SkillIds -> SkillRow \cup {NoSkill}]
  <2>1. skill' = [s \in SkillIds |-> skill'[s]]
    BY DEF Orphaned
  <2>2. \A s \in SkillIds : skill'[s] \in SkillRow \cup {NoSkill}
    BY <1>2
  <2>3. QED
    BY <2>1, <2>2
<1>4. ASSUME NEW p \in Pairs
      PROVE  /\ enabled'[p] # "none" => account'[p[1]] # NoRow /\ enabled'[p] = enabled[p]
             /\ enabled'[p] \in {"none", "on", "off"}
  BY <1>1 DEF Orphaned
<1>5. SkillsInv'
  <2>1. enabled' \in [Pairs -> {"none", "on", "off"}]
    <3>1. enabled' = [p \in Pairs |-> enabled'[p]]
      BY DEF Orphaned
    <3>2. QED
      BY <1>4, <3>1
  <2>2. \A s \in SkillIds : Stored(s)' => s <= made /\ skill'[s].version <= made
    BY <1>2 DEF PackagesInv, SkillsInv, Stored
  <2>3. QED
    BY <1>3, <2>1, <2>2 DEF PackagesInv, SkillsInv
<1>6. SwitchesInv'
  <2>1. ASSUME NEW u \in Ids, NEW s \in SkillIds
        PROVE  /\ enabled'[<<u, s>>] = "on" => <<u, s>> \in chosen'
               /\ enabled'[<<u, s>>] # "none" => Exists(u)' /\ Stored(s)'
    <3>1. <<u, s>> \in Pairs /\ <<u, s>>[1] = u
      BY DEF Pairs
    <3>2. enabled'[<<u, s>>] # "none" =>
            account'[u] # NoRow /\ enabled'[<<u, s>>] = enabled[<<u, s>>]
      BY <1>4, <3>1
    <3>3. QED
      BY <1>2, <3>2 DEF PackagesInv, SwitchesInv, Exists, Stored
  <2>2. QED
    BY <2>1 DEF SwitchesInv
<1>7. GeneratedIsWhole' /\ OriginsInv'
  <2>1. GeneratedIsWhole /\ OriginsInv /\ UNCHANGED <<made, endorsed, generated>>
    BY DEF PackagesInv, origins
  <2>2. generated \subseteq SkillIds
    BY <2>1, SkillsAssumption DEF OriginsInv, SkillIds, PackagesInv, SkillsInv
  <2>3. GeneratedIsWhole'
    BY <1>2, <2>1, <2>2 DEF GeneratedIsWhole, Stored, Missing
  <2>4. OriginsInv'
    BY <1>2, <2>1 DEF OriginsInv, Stored
  <2>5. QED
    BY <2>3, <2>4
<1>8. VersionsInv'
  <2>1. made' \in Nat /\ made <= made'
    BY <1>1
  <2>2. QED
    BY <2>1, VersionsKept DEF PackagesInv
<1>9. QED
  BY <1>5, <1>6, <1>7, <1>8 DEF PackagesInv

-----------------------------------------------------------------------------
(* Packages *)

LEMMA HelpedTyped ==
    ASSUME NEW p \in Packages, NEW scripted
    PROVE  Helped(p, scripted) \in Packages
BY SkillsAssumption DEF Helped, Packages

\* What is still missing becomes a stub, so nothing is missing.
LEMMA StubbedIsWhole ==
    ASSUME NEW p \in Packages
    PROVE  Stubbed(p) \in Packages /\ Missing(Stubbed(p)) = {}
<1>1. [p EXCEPT !.files = @ \cup Missing(p)] \in Packages
  BY DEF Packages, Missing
<1>2. /\ [p EXCEPT !.files = @ \cup Missing(p)].refs = p.refs
      /\ [p EXCEPT !.files = @ \cup Missing(p)].files = p.files \cup (p.refs \ p.files)
  BY DEF Packages, Missing
<1>3. QED
  BY <1>1, <1>2 DEF Stubbed, Missing

\* Validation drops no other path, and nothing that is referred to.
LEMMA KeptIsWhole ==
    ASSUME NEW p \in Packages
    PROVE  Kept(p) \in Packages /\ (Missing(p) = {} => Whole(Kept(p)))
<1>1. [p EXCEPT !.files = @ \ Unkept] \in Packages
  BY DEF Packages
<1>2. /\ [p EXCEPT !.files = @ \ Unkept].refs = p.refs
      /\ [p EXCEPT !.files = @ \ Unkept].files = p.files \ Unkept
  BY DEF Packages
<1>3. QED
  BY <1>1, <1>2 DEF Kept, Whole, Missing

LEMMA FallbackIsWhole ==
    ASSUME NEW refs \in SUBSET Scripts, NEW scripted
    PROVE  Fallback(refs, scripted) \in Packages /\ Missing(Fallback(refs, scripted)) = {}
<1>1. [refs |-> refs, files |-> {}] \in Packages
  BY DEF Packages
<1>2. QED
  BY <1>1, HelpedTyped, StubbedIsWhole DEF Fallback

-----------------------------------------------------------------------------
(* The requests about skills, one by one *)

\* A step that moves a request and nothing else.
LEMMA SkillsAlone ==
    ASSUME Inv, Harmless, NoNewInsert,
           UNCHANGED <<account, created, otp, tokens, bounds, bans, skillVars>>
    PROVE  Inv'
<1>1. tokens' \subseteq Ids
  BY DEF Inv, UsersInv, AccountsInv
<1>2. UsersInv'
  BY <1>1, RequestKeeps DEF Inv
<1>3. SkillsInv' /\ SwitchesInv' /\ OriginsInv' /\ GeneratedIsWhole'
  BY DEF Inv, PackagesInv, SkillsInv, SwitchesInv, OriginsInv, GeneratedIsWhole, Stored, Exists,
         skillVars, origins
<1>4. VersionsInv'
  <2>1. made' \in Nat /\ made <= made'
    BY DEF Inv, PackagesInv, SkillsInv, skillVars
  <2>2. QED
    BY <2>1, VersionsKept DEF Inv, PackagesInv, Harmless
<1>5. QED
  BY <1>2, <1>3, <1>4 DEF Inv, PackagesInv

LEMMA AloneGoes ==
    ASSUME Inv, NEW h \in Handlers, NEW r, Goes(h, r), SafeShape(r),
           r.at \notin {"edit", "consume", "skill_insert"},
           UNCHANGED <<account, created, otp, tokens, bounds, bans, skillVars>>
    PROVE  Inv'
<1>1. Harmless /\ NoNewInsert
  BY HarmlessGoes, NoInsertGoes DEF Inv, UsersInv
<1>2. QED
  BY <1>1, SkillsAlone

LEMMA AloneEnds ==
    ASSUME Inv, NEW h \in Handlers, Ends(h),
           UNCHANGED <<account, created, otp, tokens, bounds, bans, skillVars>>
    PROVE  Inv'
<1>1. Harmless /\ NoNewInsert
  BY HarmlessEnds, NoInsertEnds DEF Inv, UsersInv
<1>2. QED
  BY <1>1, SkillsAlone

LEMMA SubmitKeeps ==
    ASSUME Inv, NEW h \in Handlers, NEW name \in Names, NEW p \in Uploads,
           NEW v \in {"private", "shared"}, Submit(h, name, p, v)
    PROVE  Inv'
<1> DEFINE r == [at |-> "version", user |-> Me(h), role |-> request[h].role, name |-> name,
                 package |-> Kept(p), visibility |-> v, source |-> "manual"]
<1>1. Me(h) \in Ids /\ request[h].role \in Roles
  BY AuthedFacts DEF Inv, UsersInv, Submit
<1>2. Kept(p) \in Packages
  <2>1. p \in Packages
    BY SkillsAssumption DEF Packages
  <2>2. QED
    BY <2>1, KeptIsWhole
<1>3. SafeShape(r) /\ r.at = "version"
  BY <1>1, <1>2 DEF SafeShape, UsersShape, SkillsShape, WholeRequest
<1>4. Goes(h, r) /\ UNCHANGED <<account, created, otp, tokens, bounds, bans, skillVars>>
  BY DEF Submit
<1> HIDE DEF r
<1>5. QED
  BY <1>3, <1>4, AloneGoes

LEMMA GenerateKeeps ==
    ASSUME Inv, NEW h \in Handlers, NEW refs \in SUBSET Scripts, NEW scripted \in BOOLEAN,
           NEW v \in {"private", "shared"}, Generate(h, refs, scripted, v)
    PROVE  Inv'
<1> DEFINE r == [at |-> "draft", user |-> Me(h), role |-> request[h].role, refs |-> refs,
                 scripted |-> scripted, visibility |-> v]
<1>1. Me(h) \in Ids /\ request[h].role \in Roles
  BY AuthedFacts DEF Inv, UsersInv, Generate
<1>2. SafeShape(r) /\ r.at = "draft"
  BY <1>1 DEF SafeShape, UsersShape, SkillsShape, WholeRequest
<1>3. Goes(h, r) /\ UNCHANGED <<account, created, otp, tokens, bounds, bans, skillVars>>
  BY DEF Generate
<1> HIDE DEF r
<1>4. QED
  BY <1>2, <1>3, AloneGoes

\* What is packed is whole.
LEMMA PackedKeeps ==
    ASSUME Inv, NEW h \in Handlers, NEW name \in Names, NEW p \in Packages, Missing(p) = {},
           request[h].user \in Ids, request[h].role \in Roles,
           request[h].visibility \in {"private", "shared"},
           Packed(h, name, p),
           UNCHANGED <<account, created, otp, tokens, bounds, bans, skillVars>>
    PROVE  Inv'
<1> DEFINE u == request[h].user
           r == [at |-> "version", user |-> Me(h), role |-> request[h].role, name |-> name,
                 package |-> Kept(p), visibility |-> request[h].visibility,
                 source |-> "generated"]
<1>1. SafeShape(r) /\ r.at = "version"
  BY KeptIsWhole DEF SafeShape, UsersShape, SkillsShape, WholeRequest, Me
<1>2. Goes(h, r) \/ Ends(h)
  BY DEF Packed
<1> HIDE DEF r
<1>3. QED
  BY <1>1, <1>2, AloneGoes, AloneEnds

LEMMA DraftKeeps ==
    ASSUME Inv, NEW h \in Handlers, NEW name \in Names, Draft(h, name)
    PROVE  Inv'
<1> DEFINE r == request[h]
           fallback == Fallback(r.refs, r.scripted)
           patch(p) == [at |-> "patch", user |-> r.user, role |-> r.role, name |-> name,
                        refs |-> r.refs, scripted |-> r.scripted,
                        visibility |-> r.visibility, package |-> p]
<1>1. r \in [at : {"draft"}, user : Ids, role : Roles, refs : SUBSET Scripts,
             scripted : BOOLEAN, visibility : {"private", "shared"}]
  BY PlaceFacts DEF Inv, UsersInv, Draft, At, SkillsShape
<1>2. /\ r.user \in Ids /\ r.role \in Roles /\ r.refs \in SUBSET Scripts
      /\ r.scripted \in BOOLEAN /\ r.visibility \in {"private", "shared"}
  BY <1>1
<1>3. fallback \in Packages /\ Missing(fallback) = {}
  BY <1>2, FallbackIsWhole
<1>4. UNCHANGED <<account, created, otp, tokens, bounds, bans, skillVars>>
  BY DEF Draft
<1>5. \/ Packed(h, name, fallback)
      \/ \E p \in Packages : Missing(p) = {} /\ Packed(h, name, p)
      \/ \E p \in Packages : Goes(h, patch(p))
  <2>1. \A draft \in Drafts : Helped(draft, r.scripted) \in Packages
    BY HelpedTyped, SkillsAssumption DEF Packages
  <2>2. QED
    BY <1>2, <2>1 DEF Draft
<1>6. CASE \E p \in Packages : Missing(p) = {} /\ Packed(h, name, p)
  BY <1>2, <1>4, <1>6, PackedKeeps
<1>7. CASE Packed(h, name, fallback)
  BY <1>2, <1>3, <1>4, <1>7, PackedKeeps
<1>8. CASE \E p \in Packages : Goes(h, patch(p))
  <2>1. PICK p \in Packages : Goes(h, patch(p))
    BY <1>8
  <2>2. SafeShape(patch(p)) /\ patch(p).at = "patch"
    BY <1>2 DEF SafeShape, UsersShape, SkillsShape, WholeRequest
  <2> HIDE DEF patch
  <2>3. QED
    BY <1>4, <2>1, <2>2, AloneGoes
<1>9. QED
  BY <1>5, <1>6, <1>7, <1>8

LEMMA PatchKeeps ==
    ASSUME Inv, NEW h \in Handlers, Patch(h)
    PROVE  Inv'
<1> DEFINE r == request[h]
<1>1. r \in [at : {"patch"}, user : Ids, role : Roles, name : Names,
             refs : SUBSET Scripts, scripted : BOOLEAN,
             visibility : {"private", "shared"}, package : Packages]
  BY PlaceFacts DEF Inv, UsersInv, Patch, At, SkillsShape
<1>2. /\ r.user \in Ids /\ r.role \in Roles /\ r.refs \in SUBSET Scripts /\ r.name \in Names
      /\ r.scripted \in BOOLEAN /\ r.visibility \in {"private", "shared"}
      /\ r.package \in Packages
  BY <1>1
<1>3. PICK delivered \in SUBSET Missing(r.package) :
         LET p == Stubbed([r.package EXCEPT !.files = @ \cup delivered])
         IN  Packed(h, r.name, IF Valid(p) THEN p ELSE Fallback(r.refs, r.scripted))
  BY DEF Patch
<1>4. [r.package EXCEPT !.files = @ \cup delivered] \in Packages
  BY <1>2 DEF Packages, Missing
<1>5. \E p \in Packages : Missing(p) = {} /\ Packed(h, r.name, p)
  BY <1>2, <1>3, <1>4, StubbedIsWhole, FallbackIsWhole
<1>6. UNCHANGED <<account, created, otp, tokens, bounds, bans, skillVars>>
  BY DEF Patch
<1>7. QED
  BY <1>2, <1>5, <1>6, PackedKeeps

\* The next version is one more than the greatest of the owner's versions, all
\* of which are ids given out at most.
LEMMA ReadVersionKeeps ==
    ASSUME Inv, NEW h \in Handlers, ReadVersion(h)
    PROVE  Inv'
<1> DEFINE r == request[h]
           mine == Of(r.user, r.name)
           versions == {skill[s].version : s \in mine}
           best == CHOOSE v \in 1 .. MaxSkills : /\ v \in versions
                                               /\ \A s \in mine : skill[s].version <= v
           next == IF mine = {} THEN 1 ELSE 1 + best
           row == [owner |-> r.user, name |-> r.name, version |-> next,
                   visibility |-> VisibilityFor(r.role, r.visibility),
                   source |-> SourceFor(r.role, r.source), package |-> r.package]
           q == [at |-> "skill_insert", role |-> r.role, made_by |-> r.source, row |-> row]
<1>1. r \in [at : {"version"}, user : Ids, role : Roles, name : Names, package : Packages,
             visibility : {"private", "shared"}, source : {"manual", "generated"}]
  BY PlaceFacts DEF Inv, UsersInv, ReadVersion, At, SkillsShape
<1>2. /\ r.user \in Ids /\ r.name \in Names /\ r.package \in Packages
      /\ VisibilityFor(r.role, r.visibility) \in Visibilities
      /\ SourceFor(r.role, r.source) \in {"manual", "generated", "official"}
      /\ VisibilityFor(r.role, r.visibility) = "official" => r.role = "admin"
      /\ r.role \in Roles /\ r.source \in {"manual", "generated"}
  BY <1>1 DEF VisibilityFor, SourceFor, Visibilities
<1>3. r.source = "generated" => Whole(r.package)
  <2>1. r.at = "version" /\ WholeRequest(r)
    BY <1>1, PlaceFacts DEF Inv, UsersInv
  <2>2. QED
    BY <2>1 DEF WholeRequest
<1>4. made \in 1 .. MaxSkills /\ made \in Nat
  BY DEF Inv, PackagesInv, SkillsInv
<1>5. \A s \in mine : skill[s].version \in 1 .. made
  <2>1. ASSUME NEW s \in mine PROVE skill[s].version \in 1 .. made
    <3>1. s \in SkillIds /\ skill[s] # NoSkill
      BY DEF Of, Stored
    <3>2. skill[s] \in SkillRow /\ skill[s].version <= made
      BY <3>1 DEF Inv, PackagesInv, SkillsInv, Stored
    <3>3. skill[s].version \in 1 .. MaxSkills
      BY <3>2 DEF SkillRow
    <3>4. QED
      BY <1>4, <3>2, <3>3
  <2>2. QED
    BY <2>1
<1>6. next \in 1 .. made + 1
  <2>1. CASE mine = {}
    BY <1>4, <2>1
  <2>2. CASE mine # {}
    <3>1. versions \in SUBSET (0 .. made) /\ versions # {}
      BY <1>4, <1>5, <2>2
    <3>2. \E v \in versions : \A w \in versions : w <= v
      <4> HIDE DEF versions
      <4>1. QED
        BY <1>4, <3>1, GreatestNat
    <3>3. \E v \in 1 .. MaxSkills : v \in versions /\ \A s \in mine : skill[s].version <= v
      <4>1. PICK v \in versions : \A w \in versions : w <= v
        BY <3>2
      <4>2. v \in 1 .. made
        BY <1>5, <4>1
      <4>3. v \in 1 .. MaxSkills
        BY <1>4, <4>2, SkillsAssumption
      <4>4. \A s \in mine : skill[s].version <= v
        BY <4>1
      <4>5. QED
        BY <4>1, <4>3, <4>4
    <3>4. best \in versions
      BY <3>3
    <3>5. best \in 1 .. made
      BY <1>5, <3>4
    <3> HIDE DEF best
    <3>6. QED
      BY <1>4, <2>2, <3>5
  <2>3. QED
    BY <2>1, <2>2
<1>7. Goes(h, q) /\ UNCHANGED <<account, created, otp, tokens, bounds, bans, skillVars>>
  BY DEF ReadVersion
<1> HIDE DEF next, mine, versions, best
<1>8. next \in 1 .. MaxSkills + 1 /\ next <= made + 1
  BY <1>4, <1>6, SkillsAssumption
<1>9. row \in [owner : Ids, name : Names, visibility : Visibilities,
              source : {"manual", "generated", "official"},
              version : 1 .. MaxSkills + 1, package : Packages]
  BY <1>2, <1>8
<1>10. /\ q.at = "skill_insert" /\ q.row.version = next
       /\ q.made_by = r.source /\ q.row.package = r.package /\ q.role = r.role
       /\ q.row.visibility = VisibilityFor(r.role, r.visibility)
       /\ q \in [at : {"skill_insert"}, role : Roles, made_by : {"manual", "generated"},
                row : [owner : Ids, name : Names, visibility : Visibilities,
                       source : {"manual", "generated", "official"},
                       version : 1 .. MaxSkills + 1, package : Packages]]
  BY <1>2, <1>9
<1> HIDE DEF q
<1>11. SafeShape(q) /\ VersionOf(q)
  BY <1>2, <1>3, <1>8, <1>10 DEF SafeShape, UsersShape, SkillsShape, WholeRequest, VersionOf
<1>12. Harmless
  BY <1>7, <1>10, <1>11, HarmlessGoes DEF Inv, UsersInv
<1>13. UsersInv'
  <2>1. tokens' \subseteq Ids
    BY <1>7 DEF Inv, UsersInv, AccountsInv
  <2>2. QED
    BY <1>7, <1>12, <2>1, RequestKeeps DEF Inv
<1>14. SkillsInv' /\ SwitchesInv' /\ OriginsInv' /\ GeneratedIsWhole'
  BY <1>7 DEF Inv, PackagesInv, SkillsInv, SwitchesInv, OriginsInv, GeneratedIsWhole, Stored,
              Exists, skillVars, origins
<1>15. VersionsInv'
  <2>1. /\ request'[h] = q
        /\ \A g \in Handlers : g # h => request'[g] = request[g]
    BY <1>7, GoesFacts DEF Inv, UsersInv
  <2>2. made' = made
    BY <1>7 DEF skillVars
  <2>3. QED
    BY <1>11, <2>1, <2>2 DEF Inv, PackagesInv, VersionsInv, VersionOf
<1>16. QED
  BY <1>13, <1>14, <1>15 DEF Inv, PackagesInv

\* A step of a request that changes skills or switches and ends.
LEMMA EndsKeepsUsers ==
    ASSUME Inv, NEW h \in Handlers, Ends(h),
           UNCHANGED <<account, created, otp, tokens, bounds, bans>>
    PROVE  UsersInv' /\ NoNewInsert /\ RequestsInv'
<1>1. Harmless /\ NoNewInsert
  BY HarmlessEnds, NoInsertEnds DEF Inv, UsersInv
<1>2. tokens' \subseteq Ids
  BY DEF Inv, UsersInv, AccountsInv
<1>3. QED
  BY <1>1, <1>2, RequestKeeps DEF Inv, Harmless

LEMMA EndsKeepsVersions ==
    ASSUME Inv, NEW h \in Handlers, Ends(h), UNCHANGED made
    PROVE  VersionsInv'
<1>1. RequestsInv' /\ NoNewInsert
  BY SafeEnds, NoInsertEnds DEF Inv, UsersInv
<1>2. made' \in Nat /\ made <= made'
  BY DEF Inv, PackagesInv, SkillsInv
<1>3. QED
  BY <1>1, <1>2, VersionsKept DEF Inv, PackagesInv

\* A row of skills is written: it is typed, its version is not beyond the ids
\* given out, it is whole if it was generated, and endorsed if it is official.
LEMMA WriteSkill ==
    ASSUME PackagesInv, NEW s \in SkillIds, NEW row \in SkillRow,
           skill' = [skill EXCEPT ![s] = row],
           made' \in 1 .. MaxSkills, made <= made', s <= made', row.version <= made',
           generated' \subseteq generated \cup {s},
           s \in generated' => Whole(row.package),
           endorsed \subseteq endorsed', endorsed' \subseteq SkillIds,
           row.visibility = "official" => s \in endorsed',
           UNCHANGED <<account, enabled, chosen>>
    PROVE  SkillsInv' /\ SwitchesInv' /\ OriginsInv' /\ GeneratedIsWhole'
<1>1. /\ skill \in [SkillIds -> SkillRow \cup {NoSkill}] /\ made \in Nat
      /\ made' \in Nat
  BY SkillsAssumption DEF PackagesInv, SkillsInv
<1>2. /\ skill' \in [SkillIds -> SkillRow \cup {NoSkill}] /\ skill'[s] = row
      /\ \A t \in SkillIds : t # s => skill'[t] = skill[t]
  BY <1>1
<1>3. skill'[s] # NoSkill
  BY <1>2, SkillIsSome
<1>4. ASSUME NEW t \in SkillIds, skill'[t] # NoSkill
      PROVE  t <= made' /\ skill'[t].version <= made'
  <2>1. CASE t = s
    BY <1>2, <2>1
  <2>2. CASE t # s
    <3>1. skill[t] \in SkillRow /\ t <= made /\ skill[t].version <= made
      BY <1>1, <1>2, <1>4, <2>2 DEF PackagesInv, SkillsInv, Stored
    <3>2. t \in Nat /\ skill[t].version \in Nat
      BY <3>1 DEF SkillRow, SkillIds
    <3>3. QED
      BY <1>1, <1>2, <2>2, <3>1, <3>2
  <2>3. QED
    BY <2>1, <2>2
<1>5. SkillsInv'
  BY <1>2, <1>4 DEF PackagesInv, SkillsInv, Stored
<1>6. SwitchesInv'
  BY <1>2, <1>3 DEF PackagesInv, SwitchesInv, Stored, Exists
<1>7. OriginsInv'
  <2>1. generated' \subseteq 1 .. made'
    <3>1. \A t \in generated' : t = s \/ (t \in Nat /\ 1 <= t /\ t <= made)
      BY <1>1 DEF PackagesInv, OriginsInv
    <3>2. s \in Nat /\ 1 <= s
      BY DEF SkillIds
    <3>3. QED
      BY <1>1, <3>1, <3>2
  <2>2. \A t \in SkillIds : skill'[t] # NoSkill /\ skill'[t].visibility = "official" => t \in endorsed'
    BY <1>2 DEF PackagesInv, OriginsInv, Stored
  <2>3. QED
    BY <2>1, <2>2 DEF OriginsInv, Stored
<1>8. GeneratedIsWhole'
  <2>1. ASSUME NEW t \in generated', skill'[t] # NoSkill
        PROVE  Whole(skill'[t].package)
    <3>1. CASE t = s
      BY <1>2, <2>1, <3>1
    <3>2. CASE t # s
      <4>1. t \in generated /\ t \in SkillIds
        BY <1>1, <3>2, SkillsAssumption DEF PackagesInv, OriginsInv, SkillsInv, SkillIds
      <4>2. QED
        BY <1>2, <2>1, <3>2, <4>1 DEF PackagesInv, GeneratedIsWhole, Stored, Whole
    <3>3. QED
      BY <3>1, <3>2
  <2>2. QED
    BY <2>1 DEF GeneratedIsWhole, Stored, Missing, Whole
<1>9. QED
  BY <1>5, <1>6, <1>7, <1>8

LEMMA InsertSkillKeeps ==
    ASSUME Inv, NEW h \in Handlers, InsertSkill(h)
    PROVE  Inv'
<1> DEFINE q == request[h]
           row == request[h].row
           enable == [at |-> "enable", user |-> row.owner, skill |-> made + 1]
<1>1. /\ q.at = "skill_insert"
      /\ q \in [at : {"skill_insert"}, role : Roles, made_by : {"manual", "generated"},
                row : [owner : Ids, name : Names, visibility : Visibilities,
                       source : {"manual", "generated", "official"},
                       version : 1 .. MaxSkills + 1, package : Packages]]
  BY PlaceFacts DEF Inv, UsersInv, InsertSkill, At, SkillsShape
<1>2. /\ row \in [owner : Ids, name : Names, visibility : Visibilities,
                  source : {"manual", "generated", "official"},
                  version : 1 .. MaxSkills + 1, package : Packages]
  BY <1>1
<1>3. /\ row.version <= made + 1
      /\ q.made_by = "generated" => Whole(row.package)
      /\ row.visibility = "official" => q.role = "admin"
  <2>1. WholeRequest(q) /\ VersionOf(q)
    BY PlaceFacts DEF Inv, UsersInv, PackagesInv, VersionsInv
  <2>2. QED
    BY <1>1, <2>1 DEF WholeRequest, VersionOf
<1>4. \/ /\ made < MaxSkills /\ made' = made + 1
         /\ skill' = [skill EXCEPT ![made + 1] = row] /\ Goes(h, enable)
         /\ endorsed' = IF q.role = "admin" THEN endorsed \cup {made + 1} ELSE endorsed
         /\ generated' = IF q.made_by = "generated" THEN generated \cup {made + 1} ELSE generated
      \/ Ends(h) /\ UNCHANGED <<made, skill, origins>>
  BY DEF InsertSkill
<1>5. UNCHANGED <<account, created, otp, tokens, bounds, bans, enabled, chosen>>
  BY DEF InsertSkill
<1>6. made \in 1 .. MaxSkills /\ made \in Nat /\ MaxSkills \in Nat
  BY SkillsAssumption DEF Inv, PackagesInv, SkillsInv
<1> HIDE DEF q
<1>7. CASE Ends(h) /\ UNCHANGED <<made, skill, origins>>
  BY <1>5, <1>7, AloneEnds DEF skillVars
<1>8. CASE /\ made < MaxSkills /\ made' = made + 1
           /\ skill' = [skill EXCEPT ![made + 1] = row] /\ Goes(h, enable)
           /\ endorsed' = IF q.role = "admin" THEN endorsed \cup {made + 1} ELSE endorsed
           /\ generated' = IF q.made_by = "generated" THEN generated \cup {made + 1} ELSE generated
  <2>1. made + 1 \in SkillIds /\ made' \in 1 .. MaxSkills /\ made' \in Nat /\ made <= made'
        /\ made + 1 <= made'
    BY <1>6, <1>8 DEF SkillIds
  <2>2. row \in SkillRow /\ row.version <= made'
    <3>1. row.version <= made'
      BY <1>3, <1>8
    <3>2. row.version \in 1 .. MaxSkills
      BY <1>2, <1>6, <2>1, <3>1
    <3>3. QED
      BY <1>2, <3>1, <3>2 DEF SkillRow
  <2>3. enable.at = "enable" /\ SafeShape(enable)
    <3>1. row.owner \in Ids
      BY <1>2
    <3>2. QED
      BY <2>1, <3>1 DEF SafeShape, UsersShape, SkillsShape, WholeRequest
  <2> HIDE DEF row, enable
  <2>4. Harmless /\ NoNewInsert
    BY <1>8, <2>3, HarmlessGoes, NoInsertGoes DEF Inv, UsersInv
  <2>5. UsersInv'
    <3>1. tokens' \subseteq Ids
      BY <1>5 DEF Inv, UsersInv, AccountsInv
    <3>2. QED
      BY <1>5, <2>4, <3>1, RequestKeeps DEF Inv
  <2>6. SkillsInv' /\ SwitchesInv' /\ OriginsInv' /\ GeneratedIsWhole'
    <3>1. /\ PackagesInv /\ skill' = [skill EXCEPT ![made + 1] = row]
          /\ UNCHANGED <<account, enabled, chosen>>
      BY <1>5, <1>8 DEF Inv
    <3>2. generated \subseteq 1 .. made /\ endorsed \subseteq SkillIds /\ made + 1 \notin generated
      BY <1>6 DEF Inv, PackagesInv, OriginsInv
    <3>3. /\ generated' \subseteq generated \cup {made + 1}
          /\ made + 1 \in generated' => Whole(row.package)
      BY <1>3, <1>8, <3>2 DEF row
    <3>4. /\ endorsed \subseteq endorsed' /\ endorsed' \subseteq SkillIds
          /\ row.visibility = "official" => made + 1 \in endorsed'
      BY <1>3, <1>8, <2>1, <3>2 DEF row
    <3>5. QED
      BY <2>1, <2>2, <3>1, <3>3, <3>4, WriteSkill
  <2>7. VersionsInv'
    BY <2>1, <2>4, VersionsKept DEF Inv, PackagesInv, Harmless
  <2>8. QED
    BY <2>5, <2>6, <2>7 DEF Inv, PackagesInv
<1>9. QED
  BY <1>4, <1>7, <1>8

\* A switch is written for an account and a skill that exist, and as chosen.
LEMMA SwitchKeeps ==
    ASSUME SwitchesInv, SkillsInv, NEW u \in Ids, NEW s \in SkillIds, NEW on \in BOOLEAN,
           enabled' = Switched(u, s, IF on THEN "on" ELSE "off"),
           chosen' = IF on THEN chosen \cup {<<u, s>>} ELSE chosen \ {<<u, s>>},
           UNCHANGED <<account, skill, made>>
    PROVE  SwitchesInv' /\ SkillsInv'
<1>1. /\ <<u, s>> \in Pairs /\ enabled \in [Pairs -> {"none", "on", "off"}]
      /\ chosen \subseteq Pairs
  BY DEF Pairs, SkillsInv
<1>2. SkillsInv'
  <2>1. enabled' \in [Pairs -> {"none", "on", "off"}] /\ chosen' \subseteq Pairs
    BY <1>1 DEF Switched
  <2>2. QED
    BY <2>1 DEF SkillsInv, Stored
<1>3. ASSUME NEW v \in Ids, NEW t \in SkillIds
      PROVE  /\ enabled'[<<v, t>>] = "on" => <<v, t>> \in chosen'
             /\ enabled'[<<v, t>>] # "none" => Exists(v) /\ Stored(t)
  <2>1. <<v, t>> \in Pairs
    BY DEF Pairs
  <2>2. /\ enabled[<<v, t>>] = "on" => <<v, t>> \in chosen
        /\ enabled[<<v, t>>] # "none" => Exists(v) /\ Stored(t)
    BY DEF SwitchesInv
  <2>3. CASE <<v, t>> # <<u, s>>
    BY <1>1, <2>1, <2>2, <2>3 DEF Switched
  <2>4. CASE v = u /\ t = s
    BY <1>1, <2>2, <2>4 DEF Switched
  <2>5. QED
    BY <2>3, <2>4
<1>4. QED
  BY <1>2, <1>3 DEF SwitchesInv, Exists, Stored

LEMMA SwitchesKeep ==
    ASSUME Inv, NEW h \in Handlers, NEW u \in Ids, NEW s \in SkillIds, NEW on \in BOOLEAN,
           enabled' = Switched(u, s, IF on THEN "on" ELSE "off"),
           chosen' = IF on THEN chosen \cup {<<u, s>>} ELSE chosen \ {<<u, s>>},
           Ends(h),
           UNCHANGED <<account, created, otp, tokens, bounds, bans, skill, made, origins>>
    PROVE  Inv'
<1>1. UsersInv'
  BY EndsKeepsUsers
<1>2. VersionsInv'
  BY EndsKeepsVersions
<1>3. GeneratedIsWhole' /\ OriginsInv'
  BY DEF Inv, PackagesInv, GeneratedIsWhole, OriginsInv, Stored, origins
<1>4. SwitchesInv' /\ SkillsInv'
  <2>1. SwitchesInv /\ SkillsInv /\ UNCHANGED <<account, skill, made>>
    BY DEF Inv, PackagesInv
  <2>2. QED
    BY <2>1, SwitchKeeps
<1>5. QED
  BY <1>1, <1>2, <1>3, <1>4 DEF Inv, PackagesInv

LEMMA EnableCreatedKeeps ==
    ASSUME Inv, NEW h \in Handlers, EnableCreated(h)
    PROVE  Inv'
<1> DEFINE u == request[h].user
           s == request[h].skill
<1>1. u \in Ids /\ s \in SkillIds
  <2>1. request[h] \in [at : {"enable"}, user : Ids, skill : SkillIds]
    BY PlaceFacts DEF Inv, UsersInv, EnableCreated, At, SkillsShape
  <2>2. QED
    BY <2>1
<1>2. /\ enabled' = Switched(u, s, IF TRUE THEN "on" ELSE "off")
      /\ chosen' = IF TRUE THEN chosen \cup {<<u, s>>} ELSE chosen \ {<<u, s>>}
      /\ Ends(h) /\ UNCHANGED <<account, created, otp, tokens, bounds, bans, skill, made, origins>>
  BY DEF EnableCreated
<1> HIDE DEF u, s
<1>3. TRUE \in BOOLEAN
  OBVIOUS
<1>4. QED
  BY <1>1, <1>2, <1>3, SwitchesKeep

LEMMA SetEnabledKeeps ==
    ASSUME Inv, NEW h \in Handlers, SetEnabled(h)
    PROVE  Inv'
<1> DEFINE u == request[h].user
           s == request[h].skill
           on == request[h].on
<1>1. u \in Ids /\ s \in SkillIds /\ on \in BOOLEAN
  <2>1. request[h] \in [at : {"switch"}, user : Ids, skill : SkillIds, on : BOOLEAN]
    BY PlaceFacts DEF Inv, UsersInv, SetEnabled, At, SkillsShape
  <2>2. QED
    BY <2>1
<1>2. /\ enabled' = Switched(u, s, IF on THEN "on" ELSE "off")
      /\ chosen' = IF on THEN chosen \cup {<<u, s>>} ELSE chosen \ {<<u, s>>}
      /\ Ends(h) /\ UNCHANGED <<account, created, otp, tokens, bounds, bans, skill, made, origins>>
  BY DEF SetEnabled
<1> HIDE DEF u, s, on
<1>3. QED
  BY <1>1, <1>2, SwitchesKeep

LEMMA ReadSkillKeeps ==
    ASSUME Inv, NEW h \in Handlers, NEW s \in SkillIds, NEW on \in BOOLEAN,
           ReadSkill(h, s, on)
    PROVE  Inv'
<1> DEFINE r == [at |-> "switch", user |-> Me(h), skill |-> s, on |-> on]
<1>1. Me(h) \in Ids
  BY AuthedFacts DEF Inv, UsersInv, ReadSkill
<1>2. SafeShape(r) /\ r.at = "switch"
  BY <1>1 DEF SafeShape, UsersShape, SkillsShape, WholeRequest
<1>3. Goes(h, r) /\ UNCHANGED <<account, created, otp, tokens, bounds, bans, skillVars>>
  BY DEF ReadSkill
<1> HIDE DEF r
<1>4. QED
  BY <1>2, <1>3, AloneGoes

LEMMA ReadOwnerKeeps ==
    ASSUME Inv, NEW h \in Handlers, NEW s \in SkillIds, ReadOwner(h, s)
    PROVE  Inv'
<1> DEFINE r == [at |-> "skill_delete", skill |-> s]
<1>1. SafeShape(r) /\ r.at = "skill_delete"
  BY DEF SafeShape, UsersShape, SkillsShape, WholeRequest
<1>2. Goes(h, r) /\ UNCHANGED <<account, created, otp, tokens, bounds, bans, skillVars>>
  BY DEF ReadOwner
<1> HIDE DEF r
<1>3. QED
  BY <1>1, <1>2, AloneGoes

\* The visibility of a package does not change what it contains.
LEMMA SetVisibilityKeeps ==
    ASSUME Inv, NEW h \in Handlers, NEW s \in SkillIds, NEW v \in {"private", "shared"},
           SetVisibility(h, s, v)
    PROVE  Inv'
<1> DEFINE role == request[h].role
           row == [skill[s] EXCEPT !.visibility = VisibilityFor(role, v),
                                   !.source = SourceFor(role, skill[s].source)]
<1>1. skill[s] \in SkillRow /\ skill[s] # NoSkill
  BY DEF Inv, PackagesInv, SkillsInv, SetVisibility, Stored
<1>2. /\ VisibilityFor(role, v) \in Visibilities
      /\ SourceFor(role, skill[s].source) \in {"manual", "generated", "official"}
      /\ VisibilityFor(role, v) = "official" => role = "admin"
  BY <1>1 DEF SkillRow, VisibilityFor, SourceFor, Visibilities
<1>3. /\ row \in SkillRow /\ row.version = skill[s].version /\ row.package = skill[s].package
      /\ row.visibility = VisibilityFor(role, v)
  BY <1>1, <1>2 DEF SkillRow
<1>4. skill' = [skill EXCEPT ![s] = row]
  BY DEF SetVisibility, Inv, PackagesInv, SkillsInv
<1>5. /\ Ends(h)
      /\ endorsed' = IF role = "admin" THEN endorsed \cup {s} ELSE endorsed
      /\ UNCHANGED <<account, created, otp, tokens, bounds, bans, made, enabled, chosen, generated>>
  BY DEF SetVisibility
<1> HIDE DEF row, role
<1>6. UsersInv'
  BY <1>5, EndsKeepsUsers
<1>7. VersionsInv'
  BY <1>5, EndsKeepsVersions
<1>8. /\ made' \in 1 .. MaxSkills /\ made <= made' /\ s <= made' /\ row.version <= made'
  <2>1. made' = made /\ made \in 1 .. MaxSkills /\ made <= made
        /\ s <= made /\ skill[s].version <= made
    BY <1>1, <1>5 DEF Inv, PackagesInv, SkillsInv, Stored
  <2>2. QED
    BY <1>3, <2>1
<1>9. /\ generated' \subseteq generated \cup {s} /\ (s \in generated' => Whole(row.package))
      /\ endorsed \subseteq endorsed' /\ endorsed' \subseteq SkillIds
      /\ row.visibility = "official" => s \in endorsed'
  BY <1>1, <1>2, <1>3, <1>5 DEF Inv, PackagesInv, OriginsInv, GeneratedIsWhole, Stored, Whole
<1>10. PackagesInv /\ UNCHANGED <<account, enabled, chosen>> /\ row \in SkillRow
  BY <1>3, <1>5 DEF Inv
<1>11. SkillsInv' /\ SwitchesInv' /\ OriginsInv' /\ GeneratedIsWhole'
  BY <1>4, <1>8, <1>9, <1>10, WriteSkill
<1>12. QED
  BY <1>6, <1>7, <1>11 DEF Inv, PackagesInv

\* A deleted skill goes with its switches.
LEMMA DeleteSkillKeeps ==
    ASSUME Inv, NEW h \in Handlers, DeleteSkill(h)
    PROVE  Inv'
<1> DEFINE d == request[h].skill
<1>1. /\ skill' = [skill EXCEPT ![d] = NoSkill]
      /\ enabled' = [p \in Pairs |-> IF p[2] = d THEN "none" ELSE enabled[p]]
      /\ Ends(h)
      /\ UNCHANGED <<account, created, otp, tokens, bounds, bans, made, chosen, origins>>
  BY DEF DeleteSkill, Removed
<1> HIDE DEF d
<1>2. UsersInv'
  BY <1>1, EndsKeepsUsers
<1>3. VersionsInv'
  BY <1>1, EndsKeepsVersions
<1>4. /\ skill \in [SkillIds -> SkillRow \cup {NoSkill}]
      /\ enabled \in [Pairs -> {"none", "on", "off"}]
  BY DEF Inv, PackagesInv, SkillsInv
<1>5. /\ skill' \in [SkillIds -> SkillRow \cup {NoSkill}]
      /\ \A t \in SkillIds : skill'[t] # NoSkill => skill'[t] = skill[t]
      /\ \A t \in SkillIds : t # d => skill'[t] = skill[t]
  BY <1>1, <1>4
<1>6. enabled' \in [Pairs -> {"none", "on", "off"}]
  BY <1>1, <1>4
<1>7. SkillsInv'
  BY <1>1, <1>5, <1>6 DEF Inv, PackagesInv, SkillsInv, Stored
<1>8. SwitchesInv'
  <2>1. ASSUME NEW u \in Ids, NEW s \in SkillIds
        PROVE  /\ enabled'[<<u, s>>] = "on" => <<u, s>> \in chosen
               /\ enabled'[<<u, s>>] # "none" => Exists(u) /\ skill'[s] # NoSkill
    <3>1. <<u, s>> \in Pairs /\ <<u, s>>[2] = s
      BY DEF Pairs
    <3>2. enabled'[<<u, s>>] = IF s = d THEN "none" ELSE enabled[<<u, s>>]
      BY <1>1, <3>1
    <3>3. QED
      BY <1>5, <3>2 DEF Inv, PackagesInv, SwitchesInv, Stored
  <2>2. QED
    BY <1>1, <2>1 DEF SwitchesInv, Exists, Stored
<1>9. GeneratedIsWhole' /\ OriginsInv'
  <2>1. GeneratedIsWhole /\ OriginsInv /\ UNCHANGED <<made, endorsed, generated>>
    BY <1>1 DEF Inv, PackagesInv, origins
  <2>2. generated \subseteq SkillIds
    BY <2>1, SkillsAssumption DEF OriginsInv, SkillIds, Inv, PackagesInv, SkillsInv
  <2>3. GeneratedIsWhole'
    BY <1>5, <2>1, <2>2 DEF GeneratedIsWhole, Stored, Missing
  <2>4. OriginsInv'
    BY <1>5, <2>1 DEF OriginsInv, Stored
  <2>5. QED
    BY <2>3, <2>4
<1>10. QED
  BY <1>2, <1>3, <1>7, <1>8, <1>9 DEF Inv, PackagesInv

\* The built-in skill that a start writes is official and whole.
LEMMA SeededKeeps ==
    ASSUME Inv, Restart, Seeded, UNCHANGED <<enabled, chosen, generated>>
    PROVE  Inv'
<1> DEFINE fresh == [owner |-> 0, name |-> Builtin, visibility |-> "official",
                     source |-> "official", version |-> 1, package |-> BuiltinPackage]
<1>1. UsersInv' /\ UNCHANGED account
  BY RestartKeeps DEF Inv, Restart
<1>2. NoNewInsert
  <2>1. \A h \in Handlers : request'[h] = Idle
    BY DEF Restart
  <2>2. QED
    BY <2>1, IdleIsSafe DEF NoNewInsert
<1>3. /\ made \in 1 .. MaxSkills /\ made \in Nat /\ MaxSkills \in Nat
      /\ skill \in [SkillIds -> SkillRow \cup {NoSkill}]
  BY SkillsAssumption DEF Inv, PackagesInv, SkillsInv
<1>4. \A v \in 1 .. MaxSkills :
         /\ [fresh EXCEPT !.version = v] \in SkillRow
         /\ [fresh EXCEPT !.version = v].version = v
         /\ Whole([fresh EXCEPT !.version = v].package)
  BY SkillsAssumption DEF SkillRow, Visibilities, BuiltinPackage, Packages, Whole, Missing
<1>5. /\ fresh \in SkillRow /\ fresh.version = 1 /\ Whole(fresh.package)
  BY <1>3, SkillsAssumption DEF SkillRow, Visibilities, BuiltinPackage, Packages, Whole, Missing
<1>6. \/ /\ \E s \in SkillIds :
               /\ Stored(s) /\ skill' = [skill EXCEPT ![s] = [fresh EXCEPT !.version = skill[s].version]]
               /\ endorsed' = endorsed \cup {s}
         /\ UNCHANGED made
      \/ /\ made < MaxSkills /\ made' = made + 1
         /\ skill' = [skill EXCEPT ![made + 1] = fresh]
         /\ endorsed' = endorsed \cup {made + 1}
  BY DEF Seeded, IsBuiltin
<1> HIDE DEF fresh
<1>7. made' \in 1 .. MaxSkills /\ made' \in Nat /\ made <= made'
  BY <1>3, <1>6
<1>8. VersionsInv'
  BY <1>1, <1>2, <1>7, VersionsKept DEF Inv, PackagesInv, UsersInv
<1>9. SkillsInv' /\ SwitchesInv' /\ OriginsInv' /\ GeneratedIsWhole'
  <2>1. PackagesInv /\ UNCHANGED <<account, enabled, chosen>> /\ generated' = generated
        /\ endorsed \subseteq SkillIds
    BY <1>1 DEF Inv, PackagesInv, OriginsInv
  <2>2. CASE \E s \in SkillIds :
               /\ Stored(s) /\ skill' = [skill EXCEPT ![s] = [fresh EXCEPT !.version = skill[s].version]]
               /\ endorsed' = endorsed \cup {s}
    <3>1. PICK s \in SkillIds :
               /\ Stored(s) /\ skill' = [skill EXCEPT ![s] = [fresh EXCEPT !.version = skill[s].version]]
               /\ endorsed' = endorsed \cup {s}
      BY <2>2
    <3>2. skill[s] \in SkillRow /\ s <= made /\ skill[s].version <= made
      BY <1>3, <3>1 DEF Inv, PackagesInv, SkillsInv, Stored
    <3>3. skill[s].version \in 1 .. MaxSkills /\ s \in Nat
      BY <3>2 DEF SkillRow, SkillIds
    <3> DEFINE row == [fresh EXCEPT !.version = skill[s].version]
    <3>4. row \in SkillRow /\ row.version = skill[s].version /\ Whole(row.package)
      BY <1>4, <3>3
    <3>5. s <= made' /\ skill[s].version <= made'
      BY <1>3, <1>7, <3>2, <3>3
    <3>6. skill' = [skill EXCEPT ![s] = row]
      BY <3>1
    <3> HIDE DEF row
    <3>7. /\ row.version <= made' /\ (s \in generated' => Whole(row.package))
          /\ generated' \subseteq generated \cup {s}
          /\ endorsed \subseteq endorsed' /\ endorsed' \subseteq SkillIds
          /\ row.visibility = "official" => s \in endorsed'
      BY <2>1, <3>1, <3>4, <3>5
    <3>8. made' \in 1 .. MaxSkills /\ made <= made'
      BY <1>7
    <3>9. s <= made' /\ row \in SkillRow
      BY <3>4, <3>5
    <3>10. QED
      BY <2>1, <3>6, <3>7, <3>8, <3>9, WriteSkill
  <2>3. CASE /\ made < MaxSkills /\ made' = made + 1
             /\ skill' = [skill EXCEPT ![made + 1] = fresh]
             /\ endorsed' = endorsed \cup {made + 1}
    <3>1. made + 1 \in SkillIds /\ made + 1 <= made'
      BY <1>3, <2>3 DEF SkillIds
    <3>2. /\ skill' = [skill EXCEPT ![made + 1] = fresh]
          /\ made' \in 1 .. MaxSkills /\ made <= made'
      BY <1>7, <2>3
    <3>3. /\ fresh.version <= made' /\ fresh \in SkillRow
          /\ made + 1 \in generated' => Whole(fresh.package)
          /\ generated' \subseteq generated \cup {made + 1}
          /\ endorsed \subseteq endorsed' /\ endorsed' \subseteq SkillIds
          /\ fresh.visibility = "official" => made + 1 \in endorsed'
      BY <1>5, <1>7, <2>1, <2>3, <3>1
    <3>4. QED
      BY <2>1, <3>1, <3>2, <3>3, WriteSkill
  <2>4. QED
    BY <1>6, <2>2, <2>3
<1>10. QED
  BY <1>1, <1>8, <1>9 DEF Inv, PackagesInv

-----------------------------------------------------------------------------
(* The invariant *)

LEMMA InitSkills == Init => Inv
<1>1. SUFFICES ASSUME Init PROVE Inv
  OBVIOUS
<1>2. /\ Residents \in Seq(Emails) /\ Len(Residents) \in Nat /\ Len(Residents) <= MaxAccounts
      /\ DOMAIN Residents = 1 .. Len(Residents) /\ MaxAccounts \in Nat
      /\ \A u \in 1 .. Len(Residents) : Residents[u] \in Emails
  BY UsersAssumption
<1>3. /\ \A h \in Handlers : request[h] = Idle
      /\ request = [h \in Handlers |-> request[h]]
  BY <1>1 DEF Init, UsersInit
<1>4. RequestsInv
  BY <1>3, IdleIsSafe DEF RequestsInv, SafeShape
<1>5. AccountsInv
  <2>1. \A u \in 1 .. Len(Residents) :
           [email |-> Residents[u], role |-> RoleFor(Residents[u]), status |-> "active",
            password |-> TRUE, sub |-> "none"] \in Row
    BY <1>2 DEF Row, RoleFor, Roles, Statuses
  <2>2. account \in [Ids -> Row \cup {NoRow}]
    BY <1>1, <1>2, <2>1 DEF Init, UsersInit
  <2>3. \A u \in Ids : Exists(u) => u <= created
    BY <1>1, <1>2 DEF Init, UsersInit, Exists, Ids
  <2>4. created \in 0 .. MaxAccounts /\ tokens \subseteq Ids /\ barred \subseteq 1 .. created
    BY <1>1, <1>2 DEF Init, UsersInit, Ids
  <2>5. revived \subseteq Ids /\ overtaken \subseteq Handlers
    BY <1>1 DEF Init, UsersInit
  <2>6. QED
    BY <2>2, <2>3, <2>4, <2>5 DEF AccountsInv
<1>6. BarredInv
  BY <1>1 DEF Init, UsersInit, BarredInv
<1>7. EditsInv /\ ConsumesInv /\ VersionsInv
  BY <1>3, IdleIsSafe DEF EditsInv, EditOf, ConsumesInv, ConsumeOf, VersionsInv, VersionOf, At
<1>8. CodesInv
  <2>1. /\ code = [k \in Kinds \X Emails |-> 0] /\ cooling = {} /\ sent = 0 /\ spent = {}
        /\ MaxCodes \in Nat
    BY <1>1, UsersAssumption DEF Init, UsersInit
  <2>2. QED
    BY <2>1 DEF CodesInv
<1>9. /\ made = 1 /\ MaxSkills \in Nat \ {0} /\ made \in 1 .. MaxSkills
      /\ enabled = [p \in Pairs |-> "none"] /\ chosen = {}
      /\ endorsed = {1} /\ generated = {}
  BY <1>1, SkillsAssumption DEF Init
<1> DEFINE fresh == [owner |-> 0, name |-> Builtin, visibility |-> "official",
                     source |-> "official", version |-> 1, package |-> BuiltinPackage]
<1>10. fresh \in SkillRow /\ fresh.version = 1 /\ fresh.source = "official"
  BY <1>9, SkillsAssumption DEF SkillRow, Visibilities, BuiltinPackage, Packages
<1>11. skill = [s \in SkillIds |-> IF s = 1 THEN fresh ELSE NoSkill]
  BY <1>1 DEF Init
<1> HIDE DEF fresh
<1>12. SkillsInv
  <2>1. skill \in [SkillIds -> SkillRow \cup {NoSkill}]
    BY <1>10, <1>11
  <2>2. \A s \in SkillIds : Stored(s) => s <= made /\ skill[s].version <= made
    BY <1>9, <1>10, <1>11 DEF Stored
  <2>3. QED
    BY <1>9, <2>1, <2>2 DEF SkillsInv
<1>13. SwitchesInv
  BY <1>9 DEF SwitchesInv, Pairs
<1>14. GeneratedIsWhole /\ OriginsInv
  BY <1>9, <1>11 DEF GeneratedIsWhole, OriginsInv, Stored, SkillIds
<1>15. QED
  BY <1>4, <1>5, <1>6, <1>7, <1>8, <1>12, <1>13, <1>14 DEF Inv, UsersInv, PackagesInv

LEMMA NextSkills == Inv /\ [Next]_vars => Inv'
<1>1. SUFFICES ASSUME Inv, [Next]_vars PROVE Inv'
  OBVIOUS
<1>2. CASE (HandlerStep \/ RedisStep) /\ Orphaned /\ UNCHANGED <<made, chosen, origins>>
  <2>1. UsersInv'
    BY <1>1, <1>2, HandlerStepKeeps, ExpireKeeps DEF RedisStep, Inv
  <2>2. NoNewInsert
    <3>1. CASE HandlerStep
      BY <1>1, <3>1, CodesInsertNoSkill, LoginsInsertNoSkill, AdminsInsertNoSkill
      DEF HandlerStep, Inv, UsersInv
    <3>2. CASE RedisStep
      BY <3>2, NoInsertSame DEF RedisStep, Expire
    <3>3. QED
      BY <1>2, <3>1, <3>2
  <2>3. PackagesInv'
    BY <1>1, <1>2, <2>1, <2>2, OrphanedKeeps DEF Inv, UsersInv
  <2>4. QED
    BY <2>1, <2>3 DEF Inv
<1>3. CASE Restart /\ Seeded /\ UNCHANGED <<enabled, chosen, generated>>
  BY <1>1, <1>3, SeededKeeps
<1>4. ASSUME NEW h \in Handlers, CreateStep(h)
      PROVE  Inv'
  BY <1>1, <1>4, SubmitKeeps, GenerateKeeps, DraftKeeps, PatchKeeps, ReadVersionKeeps,
     InsertSkillKeeps, EnableCreatedKeeps DEF CreateStep
<1>5. ASSUME NEW h \in Handlers, UseStep(h)
      PROVE  Inv'
  BY <1>1, <1>5, ReadSkillKeeps, SetVisibilityKeeps, ReadOwnerKeeps, SetEnabledKeeps,
     DeleteSkillKeeps DEF UseStep
<1>6. CASE UNCHANGED vars
  <2>1. UNCHANGED <<account, created, otp, tokens, request, bounds, bans, skillVars>>
    BY <1>6 DEF vars, usersVars
  <2>2. Harmless /\ NoNewInsert
    BY <1>1, <2>1, HarmlessSame, NoInsertSame DEF Inv, UsersInv
  <2>3. QED
    BY <1>1, <2>1, <2>2, SkillsAlone
<1>7. QED
  BY <1>1, <1>2, <1>3, <1>4, <1>5, <1>6 DEF Next

LEMMA AlwaysSkills == Spec => []Inv
BY InitSkills, NextSkills, PTL DEF Spec

-----------------------------------------------------------------------------
(* Which requests a step lets in                                           *)

\* A step of one request leaves the other requests where they are.
LEMMA OthersStay ==
    ASSUME RequestsInv, NEW h \in Handlers, NEW g \in Handlers, g # h,
           CodeStep(g) \/ LoginStep(g) \/ AdminStep(g) \/ CreateStep(g) \/ UseStep(g)
    PROVE  request'[h] = request[h]
<1>1. ASSUME \E r : Goes(g, r) PROVE request'[h] = request[h]
  BY <1>1, GoesFacts
<1>2. ASSUME Ends(g) PROVE request'[h] = request[h]
  BY <1>1, <1>2 DEF Ends
<1>3. ASSUME UNCHANGED request PROVE request'[h] = request[h]
  BY <1>3
<1>4. CASE CodeStep(g)
  BY <1>1, <1>2, <1>4 DEF CodeStep, SendCode, Verify, CheckCooldown, StoreCode, StartCooldown,
                          Consume
<1>5. CASE LoginStep(g)
  <2>1. CASE \E u \in Ids : Authenticate(g, u)
    BY <1>1, <2>1 DEF Authenticate
  <2>2. CASE \E e \in Emails : Login(g, e)
    BY <1>3, <2>2 DEF Login
  <2>3. CASE \E s \in Subs : GoogleBySub(g, s)
    BY <1>1, <1>3, <2>3 DEF GoogleBySub
  <2>4. CASE GoogleByEmail(g)
    BY <1>1, <1>2, <2>4 DEF GoogleByEmail
  <2>5. CASE RegisterCheck(g)
    BY <1>1, <1>2, <2>5 DEF RegisterCheck
  <2>6. CASE Register(g) \/ LoginCode(g) \/ GoogleLink(g) \/ GoogleInsert(g) \/ ChangePassword(g)
    BY <1>2, <2>6 DEF Register, LoginCode, GoogleLink, GoogleInsert, ChangePassword
  <2>7. QED
    BY <1>5, <2>1, <2>2, <2>3, <2>4, <2>5, <2>6 DEF LoginStep
<1>6. CASE AdminStep(g)
  BY <1>1, <1>2, <1>6 DEF AdminStep, AdminCreate, PatchRead, ResetPassword, DeleteUser,
                          AdminInsert, PatchWrite
<1>7. CASE CreateStep(g)
  <2>1. ASSUME NEW name, NEW p, Packed(g, name, p) PROVE request'[h] = request[h]
    BY <1>1, <1>2, <2>1 DEF Packed
  <2>2. CASE \E name \in Names : Draft(g, name)
    BY <1>1, <2>1, <2>2 DEF Draft
  <2>3. CASE Patch(g)
    BY <2>1, <2>3 DEF Patch
  <2>4. CASE ReadVersion(g)
    BY <1>1, <2>4 DEF ReadVersion
  <2>5. CASE InsertSkill(g)
    BY <1>1, <1>2, <2>5 DEF InsertSkill
  <2>6. CASE EnableCreated(g)
    BY <1>2, <2>6 DEF EnableCreated
  <2>7. CASE \E name \in Names, p \in Uploads, v \in {"private", "shared"} : Submit(g, name, p, v)
    BY <1>1, <2>7 DEF Submit
  <2>8. CASE \E refs \in SUBSET Scripts, scripted \in BOOLEAN, v \in {"private", "shared"} :
               Generate(g, refs, scripted, v)
    BY <1>1, <2>8 DEF Generate
  <2>9. QED
    BY <1>7, <2>2, <2>3, <2>4, <2>5, <2>6, <2>7, <2>8 DEF CreateStep
<1>8. CASE UseStep(g)
  BY <1>1, <1>2, <1>8 DEF UseStep, ReadSkill, SetVisibility, ReadOwner, SetEnabled, DeleteSkill
<1>9. QED
  BY <1>4, <1>5, <1>6, <1>7, <1>8

\* Only an arrival takes an idle handler.
LEMMA OnlyArrivals ==
    ASSUME RequestsInv, NEW h \in Handlers, request[h] = Idle, request'[h] # Idle,
           CodeStep(h) \/ LoginStep(h) \/ AdminStep(h) \/ CreateStep(h) \/ UseStep(h)
    PROVE  \/ \E kind \in Kinds, e \in Emails :
                 SendCode(h, kind, e) \/ \E c \in 1 .. sent : Verify(h, kind, e, c)
           \/ \E s \in Subs : GoogleBySub(h, s)
           \/ \E u \in Ids : Authenticate(h, u)
<1>1. request[h].at = "idle"
  BY IdleIsSafe
<1>2. CASE CodeStep(h)
  BY <1>1, <1>2 DEF CodeStep, CheckCooldown, StoreCode, StartCooldown, Consume, At
<1>3. CASE LoginStep(h)
  BY <1>1, <1>3 DEF LoginStep, RegisterCheck, Register, LoginCode, GoogleByEmail, GoogleLink,
                    GoogleInsert, ChangePassword, Login, At
<1>4. CASE AdminStep(h)
  BY <1>1, <1>4 DEF AdminStep, AdminCreate, PatchRead, ResetPassword, DeleteUser, AdminInsert,
                    PatchWrite, IsAdmin, At
<1>5. CASE CreateStep(h)
  BY <1>1, <1>5 DEF CreateStep, Submit, Generate, Draft, Patch, ReadVersion, InsertSkill,
                    EnableCreated, At
<1>6. CASE UseStep(h)
  BY <1>1, <1>6 DEF UseStep, ReadSkill, SetVisibility, ReadOwner, SetEnabled, DeleteSkill, At
<1>7. QED
  BY <1>2, <1>3, <1>4, <1>5, <1>6

LEMMA Arrivals ==
    ASSUME RequestsInv, Next, NEW h \in Handlers, request[h] = Idle, request'[h] # Idle
    PROVE  \/ \E kind \in Kinds, e \in Emails :
                 SendCode(h, kind, e) \/ \E c \in 1 .. sent : Verify(h, kind, e, c)
           \/ \E s \in Subs : GoogleBySub(h, s)
           \/ \E u \in Ids : Authenticate(h, u)
<1>1. CASE RedisStep
  BY <1>1 DEF RedisStep, Expire
<1>2. CASE Restart
  BY <1>2 DEF Restart
<1>3. ASSUME NEW g \in Handlers,
             CodeStep(g) \/ LoginStep(g) \/ AdminStep(g) \/ CreateStep(g) \/ UseStep(g)
      PROVE  \/ \E kind \in Kinds, e \in Emails :
                   SendCode(h, kind, e) \/ \E c \in 1 .. sent : Verify(h, kind, e, c)
             \/ \E s \in Subs : GoogleBySub(h, s)
             \/ \E u \in Ids : Authenticate(h, u)
  <2>1. g = h
    BY <1>3, OthersStay
  <2>2. QED
    BY <1>3, <2>1, OnlyArrivals
<1>4. QED
  BY <1>1, <1>2, <1>3 DEF Next, HandlerStep

-----------------------------------------------------------------------------
(* The theorems *)

\* Accounts, codes, skills and switches keep their types.
THEOREM SkillsTyped == Spec => []TypeOK
<1>1. Inv => TypeOK
  <2>1. SUFFICES ASSUME Inv PROVE TypeOK
    OBVIOUS
  <2>2. UsersTypeOK
    <3>1. created \in 0 .. MaxAccounts /\ created \in Nat /\ barred \subseteq 1 .. created
          /\ MaxAccounts \in Nat
      BY <2>1, UsersAssumption DEF Inv, UsersInv, AccountsInv
    <3>2. barred \subseteq Ids
      BY <3>1 DEF Ids
    <3>3. sent \in 0 .. MaxCodes /\ spent \subseteq 1 .. sent /\ MaxCodes \in Nat
      BY <2>1, UsersAssumption DEF Inv, UsersInv, CodesInv
    <3>4. spent \subseteq 1 .. MaxCodes
      BY <3>3
    <3>5. QED
      BY <2>1, <3>2, <3>4 DEF Inv, UsersInv, AccountsInv, CodesInv, UsersTypeOK
  <2>3. made \in 0 .. MaxSkills
    BY <2>1, SkillsAssumption DEF Inv, PackagesInv, SkillsInv
  <2>4. endorsed \subseteq SkillIds /\ generated \subseteq SkillIds
    BY <2>1, SkillsAssumption DEF Inv, PackagesInv, SkillsInv, OriginsInv, SkillIds
  <2>5. QED
    BY <2>1, <2>2, <2>3, <2>4 DEF Inv, PackagesInv, SkillsInv, TypeOK
<1>2. QED
  BY <1>1, AlwaysSkills, PTL

\* A generated package contains every script it refers to, but for paths that
\* validation does not keep, whatever the model drafts and delivers (skills.py,
\* generate_skill_from_session, validate_skill_package).
THEOREM SkillsAreWhole == Spec => []GeneratedIsWhole
<1>1. Inv => GeneratedIsWhole
  BY DEF Inv, PackagesInv
<1>2. QED
  BY <1>1, AlwaysSkills, PTL

\* What a user's prompts contain was chosen by the user, or has the name of the
\* built-in skill and comes from a start of the process or an admin (skills.py,
\* list_enabled_skill_candidates).
THEOREM SkillsAreChosen == Spec => []PromptsAreChosen
<1>1. Inv => PromptsAreChosen
  <2>1. ASSUME Inv, NEW u \in Ids, NEW s \in Candidates(u)
        PROVE  <<u, s>> \in chosen \/ (s \in endorsed /\ skill[s].name = Builtin)
    BY <2>1 DEF Inv, PackagesInv, SwitchesInv, OriginsInv, Candidates, IsBuiltin
  <2>2. QED
    BY <2>1 DEF PromptsAreChosen
<1>2. QED
  BY <1>1, AlwaysSkills, PTL

\* A disabled account is not let in again until an admin enables it, or an edit
\* of its role that was under way when it was disabled writes the older status
\* (deps.py, get_current_user; admin_users.py, patch_user).
THEOREM BarredStayOut == Spec => BarredStaysOut
<1>1. Inv /\ [Next]_vars =>
        [\A h \in Handlers : LetIn(h) => request'[h].user \notin barred \ revived]_usersVars
  <2>1. SUFFICES ASSUME Inv, [Next]_vars, ~UNCHANGED usersVars,
                        NEW h \in Handlers, request[h] = Idle, request'[h] # Idle,
                        request'[h].at = "authed"
                 PROVE  request'[h].user \notin barred \ revived
    BY DEF LetIn
  <2>2. Next /\ RequestsInv
    BY <2>1 DEF vars, Inv, UsersInv
  <2>3. ASSUME NEW u \in Ids, Authenticate(h, u)
        PROVE  request'[h].user \notin barred \ revived
    <3>1. request'[h] = [at |-> "authed", user |-> u, role |-> account[u].role]
      BY <2>2, <2>3, GoesFacts DEF Authenticate
    <3>2. Exists(u) /\ account[u].status = "active"
      BY <2>3 DEF Authenticate, Admitted
    <3>3. u \notin barred \ revived
      BY <2>1, <3>2 DEF Inv, UsersInv, BarredInv
    <3>4. QED
      BY <3>1, <3>3
  <2>4. ASSUME NEW kind \in Kinds, NEW e \in Emails, SendCode(h, kind, e)
        PROVE  FALSE
    <3>1. request'[h] = [at |-> "cooldown", kind |-> kind, email |-> e]
      BY <2>2, <2>4, GoesFacts DEF SendCode
    <3>2. QED
      BY <2>1, <3>1
  <2>5. ASSUME NEW kind \in Kinds, NEW e \in Emails, NEW c \in 1 .. sent, Verify(h, kind, e, c)
        PROVE  FALSE
    <3>1. request'[h] = [at |-> "consume", kind |-> kind, email |-> e, code |-> c]
      BY <2>2, <2>5, GoesFacts DEF Verify
    <3>2. QED
      BY <2>1, <3>1
  <2>6. ASSUME NEW s \in Subs, GoogleBySub(h, s)
        PROVE  FALSE
    <3>1. request'[h] = [at |-> "google", sub |-> s]
      BY <2>1, <2>2, <2>6, GoesFacts DEF GoogleBySub
    <3>2. QED
      BY <2>1, <3>1
  <2>7. QED
    BY <2>1, <2>2, <2>3, <2>4, <2>5, <2>6, Arrivals
<1>2. QED
  BY <1>1, AlwaysSkills, PTL DEF Spec, BarredStaysOut

\* A code that was consumed, replaced or has expired is not accepted by a
\* request that reads its key later (otp_codes.py, verify_and_consume).
THEOREM CodesAreSpent == Spec => CodeSpent
<1>1. Inv /\ [Next]_vars =>
        [\A h \in Handlers :
           (request[h] = Idle /\ request'[h] # Idle /\ request'[h].at = "consume")
              => request'[h].code \notin spent]_usersVars
  <2>1. SUFFICES ASSUME Inv, [Next]_vars, ~UNCHANGED usersVars,
                        NEW h \in Handlers, request[h] = Idle, request'[h] # Idle,
                        request'[h].at = "consume"
                 PROVE  request'[h].code \notin spent
    OBVIOUS
  <2>2. Next /\ RequestsInv
    BY <2>1 DEF vars, Inv, UsersInv
  <2>3. ASSUME NEW u \in Ids, Authenticate(h, u)
        PROVE  FALSE
    <3>1. request'[h] = [at |-> "authed", user |-> u, role |-> account[u].role]
      BY <2>2, <2>3, GoesFacts DEF Authenticate
    <3>2. QED
      BY <2>1, <3>1
  <2>4. ASSUME NEW kind \in Kinds, NEW e \in Emails, SendCode(h, kind, e)
        PROVE  FALSE
    <3>1. request'[h] = [at |-> "cooldown", kind |-> kind, email |-> e]
      BY <2>2, <2>4, GoesFacts DEF SendCode
    <3>2. QED
      BY <2>1, <3>1
  <2>5. ASSUME NEW kind \in Kinds, NEW e \in Emails, NEW c \in 1 .. sent, Verify(h, kind, e, c)
        PROVE  request'[h].code \notin spent
    <3>1. request'[h] = [at |-> "consume", kind |-> kind, email |-> e, code |-> c]
      BY <2>2, <2>5, GoesFacts DEF Verify
    <3>2. c \notin spent
      BY <2>1, <2>5 DEF Verify, Inv, UsersInv, CodesInv
    <3>3. QED
      BY <3>1, <3>2
  <2>6. ASSUME NEW s \in Subs, GoogleBySub(h, s)
        PROVE  FALSE
    <3>1. request'[h] = [at |-> "google", sub |-> s]
      BY <2>1, <2>2, <2>6, GoesFacts DEF GoogleBySub
    <3>2. QED
      BY <2>1, <3>1
  <2>7. QED
    BY <2>1, <2>2, <2>3, <2>4, <2>5, <2>6, Arrivals
<1>2. QED
  BY <1>1, AlwaysSkills, PTL DEF Spec, CodeSpent
=============================================================================
