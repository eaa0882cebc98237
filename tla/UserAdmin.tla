------------------------------ MODULE UserAdmin ------------------------------
(***************************************************************************)
(* Accounts: the library apps/user/cleonos_user.c and the commands on it    *)
(* (useradd, userdel, usermod, users, userstat, passwd, logout, whoami).    *)
(* The kernel serves an account operation or refuses it; refused, the       *)
(* library works on users.db itself, by reading the file and then writing   *)
(* it, with nothing that keeps a second command out between the two.  A     *)
(* line of the file is an account or a line the parser skips; its bytes     *)
(* are one unit of size and a password is its hash.                         *)
(***************************************************************************)
EXTENDS Integers, Sequences, SequencesExt

CONSTANTS
    UserNames,       \* names other than root
    Passwords,
    UserProcs,       \* account commands that may run at the same time
    DbBuffer,        \* lines the 4096 bytes of the library hold
    MaxDbLines       \* bound: lines of users.db

Roles == {"admin", "user"}
Root == "root"
Names == UserNames \cup {Root}
Comment == [name |-> "#", role |-> "user", hash |-> "none"]
Idle == [pc |-> "idle"]

\* The other users are neither root nor a comment, and root has a password.
ASSUME UsersAssumption == Root \notin UserNames /\ "#" \notin UserNames /\ Passwords # {}

VARIABLES
    usersDb,      \* the lines of users.db
    homes,        \* the names whose home directory exists
    session,      \* the account the kernel has logged in, "" when none
    userCmd       \* [UserProcs -> the command the process runs]

usersVars == <<usersDb, homes, session, userCmd>>

\* cu_parse_record, cu_record_line: an account is a line with a name; the line
\* written for it has its name, role, hash and home.
IsRecord(line) == line.name \in Names
RecordLine(name, role, hash) == [name |-> name, role |-> role, hash |-> hash]

\* cu_read_all, cu_db_load: a file that fills the buffer is not read at all, and
\* looks to cleonos_user_find like one without the account.
Loads(db) == Len(db) < DbBuffer

\* cleonos_user_find: the first account of the name.
Found(db, name) == Loads(db) /\ \E i \in DOMAIN db : db[i].name = name
FindUser(db, name) ==
    db[CHOOSE i \in DOMAIN db : db[i].name = name /\ \A j \in 1 .. i - 1 : db[j].name # name]

\* cleonos_user_verify_password.
VerifyPassword(db, name, hash) == Found(db, name) /\ FindUser(db, name).hash = hash

\* cleonos_user_current_is_admin, cleonos_user_session_read, ucmd_query_current_user,
\* ucmd_require_disk_accounts and ucmd_require_admin.
RequireAdmin ==
    /\ session # ""
    /\ \E i \in DOMAIN usersDb : usersDb[i].name = session /\ FindUser(usersDb, session).role = "admin"

\* cu_db_rewrite_with: what is written for the lines that were read, all the
\* others as they were.
Replaced(db, record) == [i \in DOMAIN db |-> IF db[i].name = record.name THEN record ELSE db[i]]
Kept(lines, line, name) == IF line.name = name THEN lines ELSE Append(lines, line)
Removed(db, name) ==
    LET rest[n \in 0 .. Len(db)] == IF n = 0 THEN <<>> ELSE Kept(rest[n - 1], db[n], name)
    IN  rest[Len(db)]

\* cleonos_user_list and the count the kernel gives to users: the accounts a
\* listing shows.
Listing(db) == IF Loads(db) THEN SelectSeq(db, IsRecord) ELSE <<>>

-----------------------------------------------------------------------------
(* A command: it asks the kernel; refused, it goes on with the file.       *)

Run(p, cmd) == userCmd' = [userCmd EXCEPT ![p] = cmd]

\* useradd_run up to the kernel's answer; the two passwords typed have to agree
\* (ucmd_read_line_internal).  Any valid name may be given, root's too: it is the
\* kernel, or the file, that knows the account already.
UseraddStart(p, name, hash, role) ==
    /\ userCmd[p] = Idle /\ RequireAdmin
    /\ \/ /\ \A i \in DOMAIN usersDb : usersDb[i].name # name
          /\ Len(usersDb) < MaxDbLines
          /\ usersDb' = Append(usersDb, RecordLine(name, role, hash))
          /\ homes' = homes \cup {name}
          /\ UNCHANGED userCmd
       \/ /\ Run(p, [pc |-> "create", line |-> RecordLine(name, role, hash)])
          /\ UNCHANGED <<usersDb, homes>>
    /\ UNCHANGED session

\* cleonos_user_create: ends when the account is found.  (The file is there: no
\* account is logged in without it.)
CreateFind(p) ==
    /\ userCmd[p].pc = "create"
    /\ Run(p, IF Found(usersDb, userCmd[p].line.name) THEN Idle
              ELSE [userCmd[p] EXCEPT !.pc = "append"])
    /\ UNCHANGED <<usersDb, homes, session>>

\* cleonos_user_create, cleonos_user_home_for: the home directory, then the line.
CreateAppend(p) ==
    /\ userCmd[p].pc = "append"
    /\ \/ /\ homes' = homes \cup {userCmd[p].line.name}
          /\ \/ Len(usersDb) < MaxDbLines /\ usersDb' = Append(usersDb, userCmd[p].line)
             \/ UNCHANGED usersDb
       \/ UNCHANGED <<usersDb, homes>>
    /\ Run(p, Idle)
    /\ UNCHANGED session

\* usermod_run, cleonos_user_set_role: the account is looked up in the file, the
\* kernel is asked, and refused the record is prepared with the new role.
UsermodStart(p, name, role) ==
    /\ userCmd[p] = Idle /\ RequireAdmin /\ Found(usersDb, name)
    /\ LET record == [FindUser(usersDb, name) EXCEPT !.role = role] IN
       \/ usersDb' = Replaced(usersDb, record) /\ UNCHANGED userCmd
       \/ Run(p, [pc |-> "load", line |-> record, remove |-> FALSE]) /\ UNCHANGED usersDb
    /\ UNCHANGED <<homes, session>>

\* cleonos_user_change_password; a function of the library, which passwd, going
\* through the kernel alone, does not call.
ChangePassword(p, name, hash) ==
    /\ userCmd[p] = Idle /\ RequireAdmin /\ Found(usersDb, name)
    /\ Run(p, [pc |-> "load", line |-> [FindUser(usersDb, name) EXCEPT !.hash = hash],
               remove |-> FALSE])
    /\ UNCHANGED <<usersDb, homes, session>>

\* Mutant: root is an account like the others.
Removable(name) == TRUE

\* userdel_run, cleonos_user_remove: never root.
MayRemove(name) == name # Root

UserdelStart(p, name) ==
    /\ userCmd[p] = Idle /\ RequireAdmin /\ MayRemove(name)
    /\ \/ usersDb' = Removed(usersDb, name) /\ UNCHANGED userCmd
       \/ /\ Run(p, [pc |-> "load", line |-> RecordLine(name, "user", "none"), remove |-> TRUE])
          /\ UNCHANGED usersDb
    /\ UNCHANGED <<homes, session>>

\* cu_db_rewrite_with: reads the file; ends when it cannot be read or has no
\* such account, and may end when the lines, each with its line break, no longer
\* fit in the buffer they were just read into.
RewriteLoad(p) ==
    /\ userCmd[p].pc = "load"
    /\ LET c == userCmd[p] IN
       \/ Run(p, IF ~Found(usersDb, c.line.name) THEN Idle
                 ELSE [pc |-> "write",
                       next |-> IF c.remove THEN Removed(usersDb, c.line.name)
                                ELSE Replaced(usersDb, c.line)])
       \/ Len(usersDb) = DbBuffer - 1 /\ Run(p, Idle)
    /\ UNCHANGED <<usersDb, homes, session>>

\* cu_db_rewrite_with: writes the lines over the file, or fails to and leaves it
\* as it was.
RewriteStore(p) ==
    /\ userCmd[p].pc = "write"
    /\ usersDb' \in {usersDb, userCmd[p].next}
    /\ Run(p, Idle)
    /\ UNCHANGED <<homes, session>>

\* passwd_run: only the kernel; an admin may name another account, and gives the
\* current password only for the own one.
Passwd(p, name, old, new) ==
    /\ userCmd[p] = Idle /\ session # ""
    /\ name = session \/ RequireAdmin
    /\ name # session \/ VerifyPassword(usersDb, name, old)
    /\ Found(usersDb, name)
    /\ usersDb' = Replaced(usersDb, [FindUser(usersDb, name) EXCEPT !.hash = new])
    /\ UNCHANGED <<homes, session, userCmd>>

\* cleonos_user_session_clear, logout_run; the login is the kernel's.
Logout == session # "" /\ session' = "" /\ UNCHANGED <<usersDb, homes, userCmd>>
Login(name, hash) ==
    /\ session = "" /\ VerifyPassword(usersDb, name, hash)
    /\ session' = name /\ UNCHANGED <<usersDb, homes, userCmd>>

-----------------------------------------------------------------------------
UsersInit ==
    /\ usersDb = <<Comment, RecordLine(Root, "admin", CHOOSE h \in Passwords : TRUE)>>
    /\ homes = {} /\ session = Root
    /\ userCmd = [p \in UserProcs |-> Idle]

UsersNext ==
    \/ \E p \in UserProcs :
       \/ CreateFind(p) \/ CreateAppend(p) \/ RewriteLoad(p) \/ RewriteStore(p)
       \/ \E name \in Names :
          \/ UserdelStart(p, name)
          \/ \E role \in Roles : UsermodStart(p, name, role)
          \/ \E role \in Roles, h \in Passwords : UseraddStart(p, name, h, role)
          \/ \E h \in Passwords : ChangePassword(p, name, h)
          \/ \E h, g \in Passwords : Passwd(p, name, h, g)
    \/ Logout
    \/ \E name \in Names, h \in Passwords : Login(name, h)

UsersSpec == UsersInit /\ [][UsersNext]_usersVars

\* The line that is no account stays at the head of the file: rewriting passes
\* it on as it is.
CommentStays == usersDb # <<>> /\ usersDb[1] = Comment

\* Root's account stays the first account of the file, the one cleonos_user_find
\* answers with, whatever commands run at the same time and whichever of their
\* writes fail: a rewrite from lines that are no longer current may undo another
\* command's change and never this.
RootStays == Len(usersDb) >= 2 /\ usersDb[2].name = Root

\* A useradd that asks for root goes on to append a second line for it only from
\* a file that fills the library's buffer, where the first one is not seen.
SecondRootUnread ==
    \A p \in UserProcs :
        /\ userCmd[p] # userCmd'[p] /\ userCmd'[p].pc = "append"
        /\ userCmd'[p].line.name = Root
        => ~Loads(usersDb)

\* cu_db_rewrite_with, cleonos_user_create and cleonos_user_remove: users.db
\* keeps its head and root's account, and a second line for root takes a full file.
AccountsSound == [](CommentStays /\ RootStays) /\ [][SecondRootUnread]_usersVars
=============================================================================
