------------------------------- MODULE Skills --------------------------------
(***************************************************************************)
(* Skill packages of users: creation by hand, by upload and from a         *)
(* session, versions, visibility, which of them a user's prompts contain,  *)
(* and the built-in skill that each start of the process restores          *)
(* (services/skills.py, api/skills.py).  The requests are those of module  *)
(* Users, after get_current_user; what they know of their user is what     *)
(* they read then.                                                         *)
(*                                                                         *)
(* A package is the scripts its documents refer to and the scripts it      *)
(* contains; its other files, its texts and its title are left out, and so *)
(* are the scores that rank the skills of a prompt.  All skills are        *)
(* "active": nothing makes drafts or archives any.                         *)
(***************************************************************************)
EXTENDS Users

CONSTANTS
    Names,          \* names of packages
    Builtin,        \* "skill-creator"
    Scripts,        \* paths below scripts/
    Helper,         \* "scripts/helper.py"
    Unkept,         \* the paths among them that validation does not keep
    Uploads,        \* packages that users submit
    Drafts,         \* packages that a model drafts
    MaxScripts,     \* how many scripts a package may have
    MaxSkills       \* bound: skills ever created

ASSUME SkillsAssumption ==
    /\ Builtin \in Names /\ Helper \in Scripts
    /\ Unkept \subseteq Scripts /\ Helper \notin Unkept
    /\ Uploads \subseteq [refs : SUBSET Scripts, files : SUBSET Scripts]
    /\ Drafts \subseteq [refs : SUBSET Scripts, files : SUBSET Scripts]
    /\ MaxScripts \in Nat /\ MaxSkills \in Nat \ {0}

VARIABLES
    skill,          \* skills, by id
    made,           \* how many ids were given out
    enabled,        \* user_skills: [user, skill] |-> enabled
    chosen,         \* history: what a user created or turned on, and did not
                    \* turn off
    endorsed,       \* history: skills that a start of the process wrote, or an
                    \* admin created or made official
    generated       \* history: skills made from a session

origins == <<endorsed, generated>>
skillVars == <<skill, made, enabled, chosen, origins>>
vars == <<usersVars, skillVars>>

SkillIds == 1 .. MaxSkills
Packages == [refs : SUBSET Scripts, files : SUBSET Scripts]
Visibilities == {"private", "shared", "official"}

SkillRow == [owner : Ids \cup {0}, name : Names, visibility : Visibilities,
             source : {"manual", "generated", "official"},
             version : 1 .. MaxSkills, package : Packages]

NoSkill == [owner |-> "none"]

Stored(s) == skill[s] # NoSkill

\* user_skills has one row for a pair, or none.
Pairs == Ids \X SkillIds

TypeOK ==
    /\ UsersTypeOK
    /\ skill \in [SkillIds -> SkillRow \cup {NoSkill}]
    /\ made \in 0 .. MaxSkills
    /\ enabled \in [Pairs -> {"none", "on", "off"}]
    /\ chosen \subseteq Pairs
    /\ endorsed \subseteq SkillIds /\ generated \subseteq SkillIds

BuiltinPackage == [refs |-> {}, files |-> {}]

Init ==
    /\ UsersInit
    /\ skill = [s \in SkillIds |->
          IF s = 1 THEN [owner |-> 0, name |-> Builtin, visibility |-> "official",
                         source |-> "official", version |-> 1, package |-> BuiltinPackage]
                   ELSE NoSkill]
    /\ made = 1
    /\ enabled = [p \in Pairs |-> "none"]
    /\ chosen = {} /\ endorsed = {1} /\ generated = {}

\* The skill that is part of every prompt.
IsBuiltin(s) == Stored(s) /\ skill[s].name = Builtin /\ skill[s].visibility = "official"

CandidatesInstalled(u) == {s \in SkillIds : Stored(s) /\ (enabled[<<u, s>>] # "none" \/ IsBuiltin(s))}

\* list_enabled_skill_candidates, format_enabled_skills_for_prompt: whatever
\* its visibility is by now.
Candidates(u) == {s \in SkillIds : Stored(s) /\ (enabled[<<u, s>>] = "on" \/ IsBuiltin(s))}

-----------------------------------------------------------------------------
(* Packages *)

Missing(p) == p.refs \ p.files

\* _ensure_script_helper: a task that calls for a script gets one.
Helped(p, scripted) ==
    IF p.files = {} /\ scripted
    THEN [refs |-> p.refs \cup {Helper}, files |-> {Helper}]
    ELSE p

StubbedNever(p) == p

\* _ensure_referenced_scripts_stub_only: what is still missing is a stub.
Stubbed(p) == [p EXCEPT !.files = @ \cup Missing(p)]

\* validate_skill_package: a path with ".." or with a name that begins with a
\* dot is dropped, and one with "." or "//" is stored under another name.
Kept(p) == [p EXCEPT !.files = @ \ Unkept]

Valid(p) == Cardinality(Kept(p).files) <= MaxScripts

\* _fallback_generated_package, from the user's message alone, which may
\* refer to scripts itself.
Fallback(refs, scripted) ==
    Stubbed(Helped([refs |-> refs, files |-> {}], scripted))

-----------------------------------------------------------------------------
(* Creation *)

\* package_from_markdown, package_from_zip: a package that is valid.
Submit(h, name, p, visibility) ==
    /\ At(h, "authed")
    /\ Valid(p)
    /\ Goes(h, [at |-> "version", user |-> Me(h), role |-> request[h].role, name |-> name,
                package |-> Kept(p), visibility |-> visibility, source |-> "manual"])
    /\ UNCHANGED <<account, created, otp, tokens, bounds, bans, skillVars>>

\* generate_skill_from_session: the message and the answer are read ...
Generate(h, refs, scripted, visibility) ==
    /\ At(h, "authed")
    /\ Goes(h, [at |-> "draft", user |-> Me(h), role |-> request[h].role, refs |-> refs,
                scripted |-> scripted, visibility |-> visibility])
    /\ UNCHANGED <<account, created, otp, tokens, bounds, bans, skillVars>>

\* With a package to create, or with none that is valid.
Packed(h, name, p) ==
    IF Valid(p)
    THEN Goes(h, [at |-> "version", user |-> Me(h), role |-> request[h].role, name |-> name,
                  package |-> Kept(p), visibility |-> request[h].visibility,
                  source |-> "generated"])
    ELSE Ends(h)

\* ... the model fails, or drafts a package: with the helper it is complete,
\* or the model is asked for the scripts it refers to and does not contain ...
Draft(h, name) ==
    /\ At(h, "draft")
    /\ LET r == request[h]
           fallback == Fallback(r.refs, r.scripted)
       IN  \/ Packed(h, name, fallback)
           \/ \E draft \in Drafts :
                 LET p == Helped(draft, r.scripted)
                 IN  CASE Missing(p) # {} -> Goes(h, [at |-> "patch", user |-> r.user,
                             role |-> r.role, name |-> name, refs |-> r.refs,
                             scripted |-> r.scripted, visibility |-> r.visibility,
                             package |-> p])
                       [] Missing(p) = {} /\ Valid(p) -> Packed(h, name, p)
                       [] OTHER -> Packed(h, name, fallback)
    /\ UNCHANGED <<account, created, otp, tokens, bounds, bans, skillVars>>

\* ... of which it delivers some; the rest are stubs.
Patch(h) ==
    /\ At(h, "patch")
    /\ LET r == request[h]
       IN  \E delivered \in SUBSET Missing(r.package) :
              LET p == Stubbed([r.package EXCEPT !.files = @ \cup delivered])
              IN  Packed(h, r.name, IF Valid(p) THEN p ELSE Fallback(r.refs, r.scripted))
    /\ UNCHANGED <<account, created, otp, tokens, bounds, bans, skillVars>>

\* _visibility_for_user, _source_for_user: what an admin makes is official.
VisibilityFor(role, requested) == IF role = "admin" THEN "official" ELSE requested
SourceFor(role, requested) == IF role = "admin" THEN "official" ELSE requested

Of(u, name) == {s \in SkillIds : Stored(s) /\ skill[s].owner = u /\ skill[s].name = name}

\* create_skill: the next version is read ...
ReadVersion(h) ==
    /\ At(h, "version")
    /\ LET r == request[h]
           mine == Of(r.user, r.name)
           next == IF mine = {} THEN 1
                   ELSE 1 + CHOOSE v \in 1 .. MaxSkills :
                               /\ v \in {skill[s].version : s \in mine}
                               /\ \A s \in mine : skill[s].version <= v
       IN  Goes(h, [at |-> "skill_insert", role |-> r.role, made_by |-> r.source, row |->
                     [owner |-> r.user, name |-> r.name, version |-> next,
                      visibility |-> VisibilityFor(r.role, r.visibility),
                      source |-> SourceFor(r.role, r.source), package |-> r.package]])
    /\ UNCHANGED <<account, created, otp, tokens, bounds, bans, skillVars>>

\* ... the row is inserted, unless the owner is gone or has that version by
\* now ...
InsertSkill(h) ==
    /\ At(h, "skill_insert")
    /\ LET row == request[h].row
       IN  IF Exists(row.owner) /\ \A s \in Of(row.owner, row.name) : skill[s].version # row.version
           THEN /\ made < MaxSkills
                /\ made' = made + 1
                /\ skill' = [skill EXCEPT ![made + 1] = row]
                /\ endorsed' = IF request[h].role = "admin" THEN endorsed \cup {made + 1}
                               ELSE endorsed
                /\ generated' = IF request[h].made_by = "generated" THEN generated \cup {made + 1}
                                ELSE generated
                /\ Goes(h, [at |-> "enable", user |-> row.owner, skill |-> made + 1])
           ELSE Ends(h) /\ UNCHANGED <<made, skill, origins>>
    /\ UNCHANGED <<account, created, otp, tokens, bounds, bans, enabled, chosen>>

\* INSERT INTO user_skills ... ON CONFLICT DO UPDATE, which needs both rows.
Switched(u, s, to) ==
    IF Exists(u) /\ Stored(s) THEN [enabled EXCEPT ![<<u, s>>] = to] ELSE enabled

\* ... and enabled for its owner.
EnableCreated(h) ==
    /\ At(h, "enable")
    /\ enabled' = Switched(request[h].user, request[h].skill, "on")
    /\ chosen' = chosen \cup {<<request[h].user, request[h].skill>>}
    /\ Ends(h)
    /\ UNCHANGED <<account, created, otp, tokens, bounds, bans, skill, made, origins>>

-----------------------------------------------------------------------------
(* Use and removal *)

\* set_skill_enabled: the skill must be shown to the user; the built-in one is
\* left alone ...
ReadSkill(h, s, on) ==
    /\ At(h, "authed")
    /\ Stored(s) /\ ~IsBuiltin(s)
    /\ skill[s].owner = Me(h) \/ skill[s].visibility # "private"
    /\ Goes(h, [at |-> "switch", user |-> Me(h), skill |-> s, on |-> on])
    /\ UNCHANGED <<account, created, otp, tokens, bounds, bans, skillVars>>

\* ... and the switch is written.
SetEnabled(h) ==
    /\ At(h, "switch")
    /\ LET r == request[h]
           pair == <<r.user, r.skill>>
       IN  /\ enabled' = Switched(r.user, r.skill, IF r.on THEN "on" ELSE "off")
           /\ chosen' = IF r.on THEN chosen \cup {pair} ELSE chosen \ {pair}
    /\ Ends(h)
    /\ UNCHANGED <<account, created, otp, tokens, bounds, bans, skill, made, origins>>

\* update_skill_visibility: by the owner.
SetVisibility(h, s, visibility) ==
    /\ At(h, "authed")
    /\ Stored(s) /\ skill[s].owner = Me(h)
    /\ skill' = [skill EXCEPT
          ![s].visibility = VisibilityFor(request[h].role, visibility),
          ![s].source = SourceFor(request[h].role, @)]
    /\ endorsed' = IF request[h].role = "admin" THEN endorsed \cup {s} ELSE endorsed
    /\ Ends(h)
    /\ UNCHANGED <<account, created, otp, tokens, bounds, bans, made, enabled, chosen, generated>>

\* A row of skills goes with its rows of user_skills.
Removed(s) ==
    /\ skill' = [skill EXCEPT ![s] = NoSkill]
    /\ enabled' = [p \in Pairs |-> IF p[2] = s THEN "none" ELSE enabled[p]]

\* delete_skill: by the owner or an admin ...
ReadOwner(h, s) ==
    /\ At(h, "authed")
    /\ Stored(s)
    /\ skill[s].owner = Me(h) \/ request[h].role = "admin"
    /\ Goes(h, [at |-> "skill_delete", skill |-> s])
    /\ UNCHANGED <<account, created, otp, tokens, bounds, bans, skillVars>>

\* ... in another statement.
DeleteSkill(h) ==
    /\ At(h, "skill_delete")
    /\ Removed(request[h].skill)
    /\ Ends(h)
    /\ UNCHANGED <<account, created, otp, tokens, bounds, bans, made, chosen, origins>>

\* seed_builtin_skills, before a started process takes requests: an official
\* skill of that name is overwritten, or the row is inserted.
Seeded ==
    LET official == {s \in SkillIds : IsBuiltin(s)}
        fresh == [owner |-> 0, name |-> Builtin, visibility |-> "official",
                  source |-> "official", version |-> 1, package |-> BuiltinPackage]
    IN  IF official # {}
        THEN /\ \E s \in official :
                   /\ skill' = [skill EXCEPT ![s] = [fresh EXCEPT !.version = skill[s].version]]
                   /\ endorsed' = endorsed \cup {s}
             /\ UNCHANGED made
        ELSE /\ made < MaxSkills
             /\ made' = made + 1
             /\ skill' = [skill EXCEPT ![made + 1] = fresh]
             /\ endorsed' = endorsed \cup {made + 1}

\* Deleting an account leaves its skills without an owner and drops what it
\* had enabled.
Orphaned ==
    /\ skill' = [s \in SkillIds |->
          IF Stored(s) /\ skill[s].owner # 0 /\ account'[skill[s].owner] = NoRow
          THEN [skill[s] EXCEPT !.owner = 0] ELSE skill[s]]
    /\ enabled' = [p \in Pairs |-> IF account'[p[1]] = NoRow THEN "none" ELSE enabled[p]]

-----------------------------------------------------------------------------

CreateStep(h) ==
    \/ \E name \in Names, p \in Uploads, v \in {"private", "shared"} : Submit(h, name, p, v)
    \/ \E refs \in SUBSET Scripts, scripted \in BOOLEAN, v \in {"private", "shared"} :
          Generate(h, refs, scripted, v)
    \/ \E name \in Names : Draft(h, name)
    \/ Patch(h) \/ ReadVersion(h) \/ InsertSkill(h) \/ EnableCreated(h)

UseStep(h) ==
    \/ \E s \in SkillIds :
          \/ \E on \in BOOLEAN : ReadSkill(h, s, on)
          \/ \E v \in {"private", "shared"} : SetVisibility(h, s, v)
          \/ ReadOwner(h, s)
    \/ SetEnabled(h) \/ DeleteSkill(h)

Next ==
    \/ (HandlerStep \/ RedisStep) /\ Orphaned /\ UNCHANGED <<made, chosen, origins>>
    \/ Restart /\ Seeded /\ UNCHANGED <<enabled, chosen, generated>>
    \/ \E h \in Handlers : CreateStep(h) \/ UseStep(h)

Spec == Init /\ [][Next]_vars

-----------------------------------------------------------------------------
(* Properties *)

\* Whatever the model drafts or delivers, whatever the user's message refers
\* to, and whoever the user is, a generated package contains every script it
\* refers to, but for those whose paths validation does not keep
\* (NoGhostScripts).
GeneratedIsWhole ==
    \A s \in generated : Stored(s) => Missing(skill[s].package) \subseteq Unkept

\* "Do not reference scripts that are not included": a generated package
\* contains every script it refers to.  This is not so for a path that is
\* referred to and not kept.
NoGhostScripts ==
    \A s \in generated : Stored(s) => Missing(skill[s].package) = {}

\* A user's prompts contain what the user created or turned on and did not
\* turn off, whatever admins, owners and restarts do meanwhile; what else they
\* contain has the name of the built-in skill and comes from a start of the
\* process or an admin, and never from another user.
PromptsAreChosen ==
    \A u \in Ids : \A s \in Candidates(u) :
        <<u, s>> \in chosen \/ (s \in endorsed /\ skill[s].name = Builtin)

\* "Return all user-enabled active Skill packages" (list_enabled_skill_candidates):
\* a user's prompts contain what the user created or turned on, and the
\* built-in skill, which has no owner.  This is not so when an admin uploads a
\* package with the name of the built-in one.
OnlyEnabledSkills ==
    \A u \in Ids : \A s \in Candidates(u) : <<u, s>> \in chosen \/ skill[s].owner = 0
=============================================================================
