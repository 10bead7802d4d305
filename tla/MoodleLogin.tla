---------------------------- MODULE MoodleLogin ----------------------------
(* What a Moodle login does around the throttle: it asks for the courses of   *)
(* the account and then, in parallel, for its roles and groups in each, while *)
(* the enrolment changes; and once the failures are cleared it stores the     *)
(* role and the clan it has found, in a transaction each, beside other logins *)
(* of the account.  RoleSources has the statements behind the stored role.    *)
EXTENDS LoginThrottle

CONSTANTS
    Accounts,   \* the subjects that are usernames of Moodle; others are of local logins and resets
    Courses,
    Clans,      \* names of groups
    Enrolments  \* bound: what an account may be in a course

MoodleRoles == {"manager", "gestor", "editingteacher", "teacher", "student", "other"}

ASSUME MoodleAssumption ==
    /\ Accounts \subseteq Subjects
    /\ Enrolments \subseteq [roles: SUBSET MoodleRoles, groups: SUBSET Clans]
    /\ None \notin Clans \cup Enrolments

VARIABLES
    enrolment,  \* Moodle's: per account and course
    role,       \* user_global_role_sources of source "moodle", per account
    clan,       \* user_federated_attributes of name "clan", per account
    raced,      \* history: accounts whose clan overlapping logins have written
    login       \* per request: what it knows of the account

moodleVars == <<vars, enrolment, role, clan, raced, login>>

GlobalRoles == {"admin", "teamleader", "coder"}

Clan == [value: Clans \cup {None}, status: {"synced", "missing", "ambiguous"}]

\* "first" is history, the enrolment when the courses were asked for, and "steady"
\* that it is the same still; "alone" that no other login of the account has run
\* beside this one.
Login == [step: {"idle", "courses", "access", "resolved", "role", "clan", "store"},
          account: Accounts \cup {None}, pending: SUBSET Courses,
          roles: SUBSET MoodleRoles, groups: SUBSET Clans, found: Clan \cup {None},
          steady: BOOLEAN, alone: BOOLEAN]

NoLogin == [step |-> "idle", account |-> None, pending |-> {}, roles |-> {}, groups |-> {},
            found |-> None, steady |-> FALSE, alone |-> FALSE]

\* Accounts, stored attributes and logins have the shape of Moodle's answers and of
\* the tables, and the throttle keeps its own.
MoodleTypeOK ==
    /\ TypeOK
    /\ enrolment \in [Accounts -> [Courses -> Enrolments \cup {None}]]
    /\ role \in [Accounts -> GlobalRoles \cup {None}]
    /\ clan \in [Accounts -> Clan \cup {None}]
    /\ raced \in SUBSET Accounts
    /\ login \in [Requests -> Login]

MoodleInit ==
    /\ Init
    /\ enrolment \in [Accounts -> [Courses -> Enrolments \cup {None}]]
    /\ role = [a \in Accounts |-> None]
    /\ clan = [a \in Accounts |-> None]
    /\ raced = {}
    /\ login = [t \in Requests |-> NoLogin]

-----------------------------------------------------------------------------
(* What Moodle's answers come to *)

RoleMap == [r \in MoodleRoles |->
    CASE r \in {"manager", "gestor"} -> "admin"
      [] r \in {"editingteacher", "teacher"} -> "teamleader"
      [] r = "student" -> "coder"
      [] OTHER -> None]

Mapped(roles) == {RoleMap[r] : r \in roles}

\* mapped_orbita_role.
MappedRole(roles) ==
    IF "admin" \in Mapped(roles) THEN "admin"
    ELSE IF "teamleader" \in Mapped(roles) THEN "teamleader"
    ELSE IF "coder" \in Mapped(roles) THEN "coder" ELSE None

\* resolve_moodle_clan.
ResolvedClan(groups) ==
    IF Cardinality(groups) = 1 THEN [value |-> CHOOSE g \in groups : TRUE, status |-> "synced"]
    ELSE [value |-> None, status |-> IF groups = {} THEN "missing" ELSE "ambiguous"]

\* Groups count in the courses where the account is a student.
GroupsOf(e) == IF "student" \in e.roles THEN e.groups ELSE {}

EnrolledIn(a) == {c \in Courses : enrolment[a][c] # None}

RolesOf(a) == UNION {enrolment[a][c].roles : c \in EnrolledIn(a)}

\* What is to be stored for roles and groups: no clan but for coders.
ClanFor(roles, groups) == IF MappedRole(roles) = "coder" THEN ResolvedClan(groups) ELSE None

-----------------------------------------------------------------------------
(* MoodleClient.authenticate *)

LoggingIn(t) == login[t].step # "idle"

Beside(t) == {u \in Requests \ {t} : login[u].account = request[t].subject}

\* The password is accepted, a token is issued and the account looked up.
Token(t) ==
    /\ request[t].step = "answer"
    /\ request[t].op = "login"
    /\ request[t].subject \in Accounts
    /\ ~LoggingIn(t)
    /\ login' = [u \in Requests |->
           IF u = t THEN [NoLogin EXCEPT !.step = "courses", !.account = request[t].subject,
                                         !.alone = Beside(t) = {}]
           ELSE IF u \in Beside(t) THEN [login[u] EXCEPT !.alone = FALSE] ELSE login[u]]
    /\ UNCHANGED <<vars, enrolment, role, clan, raced>>

ListCourses(t) ==
    /\ login[t].step = "courses"
    /\ login' = [login EXCEPT ![t].step = "access", ![t].steady = TRUE,
                              ![t].pending = EnrolledIn(login[t].account)]
    /\ UNCHANGED <<vars, enrolment, role, clan, raced>>

\* Mutant: a course whose profile is not returned is left out.
ReadOrSkipCourse(t, c) ==
    /\ login[t].step = "access"
    /\ c \in login[t].pending
    /\ \/ login' = [login EXCEPT ![t].pending = @ \ {c}]
       \/ LET e == enrolment[login[t].account][c] IN
          /\ e # None
          /\ login' = [login EXCEPT ![t].pending = @ \ {c}, ![t].roles = @ \cup e.roles,
                                    ![t].groups = @ \cup GroupsOf(e)]
    /\ UNCHANGED <<vars, enrolment, role, clan, raced>>

\* profile_access; a course that is no longer there fails the login, in LeaveLogin.
ReadCourse(t, c) ==
    LET e == enrolment[login[t].account][c] IN
    /\ login[t].step = "access"
    /\ c \in login[t].pending
    /\ e # None
    /\ login' = [login EXCEPT ![t].pending = @ \ {c}, ![t].roles = @ \cup e.roles,
                              ![t].groups = @ \cup GroupsOf(e)]
    /\ UNCHANGED <<vars, enrolment, role, clan, raced>>

\* Every course has answered, and the identity is resolved: see IdentityLinking.
Resolve(t) ==
    /\ login[t].step = "access"
    /\ login[t].pending = {}
    /\ login' = [login EXCEPT ![t].step = "resolved"]
    /\ UNCHANGED <<vars, enrolment, role, clan, raced>>

-----------------------------------------------------------------------------
(* moodle_login, after the answer: clear_success, sync_moodle_role,           *)
(* sync_moodle_clan                                                           *)

\* A login whose answers are in goes on to clear; what is refused at the token is
\* recorded.
AnswerLogin(t) ==
    /\ Answer(t)
    /\ request'[t].step = "clear" /\ request[t].subject \in Accounts =>
           login[t].step = "resolved"
    /\ request'[t].step = "record" => ~LoggingIn(t)
    /\ UNCHANGED <<enrolment, role, clan, raced, login>>

ClearLogin(t) ==
    /\ Clear(t)
    /\ login' = IF LoggingIn(t) THEN [login EXCEPT ![t].step = "role"] ELSE login
    /\ UNCHANGED <<enrolment, role, clan, raced>>

SyncRole(t) ==
    /\ login[t].step = "role"
    /\ role' = [role EXCEPT ![login[t].account] = MappedRole(login[t].roles)]
    /\ login' = [login EXCEPT ![t].step = "clan"]
    /\ UNCHANGED <<vars, enrolment, clan, raced>>

EndLogin(t) == login' = [login EXCEPT ![t] = NoLogin]

Written(t) ==
    raced' = IF login[t].alone THEN raced \ {login[t].account} ELSE raced \cup {login[t].account}

DropClan(t) ==
    /\ login[t].step = "clan"
    /\ MappedRole(login[t].roles) # "coder"
    /\ clan' = [clan EXCEPT ![login[t].account] = None]
    /\ Written(t)
    /\ EndLogin(t)
    /\ UNCHANGED <<vars, enrolment, role>>

FindClan(t) ==
    /\ login[t].step = "clan"
    /\ MappedRole(login[t].roles) = "coder"
    /\ login' = [login EXCEPT ![t].step = "store", ![t].found = clan[login[t].account]]
    /\ UNCHANGED <<vars, enrolment, role, clan, raced>>

\* Mutant: a clan that is not resolved leaves the value as it was.
KeepValue(now, found, new) ==
    IF found = None THEN new
    ELSE IF new.status = "synced" THEN new ELSE [now EXCEPT !.status = new.status]

\* The columns whose value differs from the one loaded are written.
Updated(now, found, new) ==
    IF found = None THEN new
    ELSE [value |-> IF new.value = found.value THEN now.value ELSE new.value,
          status |-> IF new.status = found.status THEN now.status ELSE new.status]

\* Fails, in LeaveLogin, when the row has come, or has gone, since.
StoreClan(t) ==
    LET a == login[t].account IN
    /\ login[t].step = "store"
    /\ (login[t].found = None) = (clan[a] = None)
    /\ clan' = [clan EXCEPT ![a] = Updated(@, login[t].found, ResolvedClan(login[t].groups))]
    /\ Written(t)
    /\ EndLogin(t)
    /\ UNCHANGED <<vars, enrolment, role>>

\* The login fails where it is: Moodle does not answer or answers otherwise than
\* expected, the identity is refused, a key is violated, or the process is lost.
LeaveLogin(t) ==
    /\ IF request[t].step = "idle" THEN LoggingIn(t) /\ UNCHANGED vars ELSE Leave(t)
    /\ EndLogin(t)
    /\ UNCHANGED <<enrolment, role, clan, raced>>

-----------------------------------------------------------------------------
(* Moodle's own changes *)

Enrol(a, c, e) ==
    /\ enrolment[a][c] # e
    /\ enrolment' = [enrolment EXCEPT ![a][c] = e]
    /\ login' = [t \in Requests |->
           IF login[t].account = a THEN [login[t] EXCEPT !.steady = FALSE] ELSE login[t]]
    /\ UNCHANGED <<vars, role, clan, raced>>

Throttle(t) ==
    \/ /\ \/ ~LoggingIn(t) /\ \E op \in {"login", "reset"}, s \in Subjects, a \in Addresses :
                                 Start(t, op, s, a)
          \/ CountPair(t)
          \/ CountAddress(t)
          \/ \E x \in Slots : Record(t, x)
       /\ UNCHANGED <<enrolment, role, clan, raced, login>>
    \/ AnswerLogin(t)
    \/ ClearLogin(t)

MoodleStep(t) ==
    \/ Token(t)
    \/ ListCourses(t)
    \/ \E c \in Courses : ReadCourse(t, c)
    \/ Resolve(t)
    \/ SyncRole(t)
    \/ DropClan(t)
    \/ FindClan(t)
    \/ StoreClan(t)
    \/ LeaveLogin(t)

MoodleNext ==
    \/ \E t \in Requests : Throttle(t) \/ MoodleStep(t)
    \/ \E x \in Slots : Age(x) /\ UNCHANGED <<enrolment, role, clan, raced, login>>
    \/ \E a \in Accounts, c \in Courses, e \in Enrolments \cup {None} : Enrol(a, c, e)

MoodleSpec == MoodleInit /\ [][MoodleNext]_moodleVars

-----------------------------------------------------------------------------

\* A login that no other login of the account overlaps, and whose enrolment stays
\* as it was listed, ends with the role and the clan of the account's whole
\* enrolment, whatever earlier logins that failed halfway or raced have left.
SoloLoginSynchronizes ==
    [][\A t \in Requests :
          login[t].alone /\ login[t].steady /\ (DropClan(t) \/ StoreClan(t)) =>
             LET a == login[t].account
                 roles == RolesOf(a)
                 groups == UNION {GroupsOf(enrolment[a][c]) : c \in EnrolledIn(a)}
             IN role'[a] = MappedRole(roles) /\ clan'[a] = ClanFor(roles, groups)]_moodleVars

\* The stored clan is of one answer of Moodle: a value comes with the status
\* "synced", and only with it, unless overlapping logins have written the columns.
ClanIsWholeUnlessRaced ==
    \A a \in Accounts \ raced :
        clan[a] # None => (clan[a].value # None <=> clan[a].status = "synced")
=============================================================================
