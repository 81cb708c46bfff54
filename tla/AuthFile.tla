------------------------------ MODULE AuthFile ------------------------------
(***************************************************************************)
(* The password file: posix/auth_file.c, groups.c and the two handlers of  *)
(* authenticate.c.                                                         *)
(*                                                                         *)
(* The daemon reads the file once, when it starts, and rewrites it in      *)
(* place whenever a password is changed.  The rewriting is a sequence of   *)
(* system calls, and each of them is a step here, because the machine or   *)
(* the process may die between any two.  All else a handler does is part   *)
(* of the step it belongs to: there is one thread.                         *)
(*                                                                         *)
(* write_user_data never calls fsync.  What it wrote is what every process *)
(* reads, but the kernel takes it to the disk when it likes, and a machine *)
(* that fails comes back with what the disk holds.                         *)
(*                                                                         *)
(* The file is a sequence of pieces of the text cJSON_Print makes of the   *)
(* users; a piece holds the passwords of the users that stand in it.       *)
(***************************************************************************)
EXTENDS Naturals, SequencesExt

CONSTANTS
    Peers,
    Users,          \* the entries of the file
    Names,          \* the spellings of their names clients use
    Entry,          \* cJSON_GetObjectItem ignores case: name -> user
    Admins,
    ReadOnly,
    Passwords,
    GroupLists,     \* what the file may say of groups: sets of Users -> Seq(name)
    Order,          \* the users as the file lists them
    GroupBits,      \* the width of group_t
    FileSize,       \* pieces of a printed file
    Place,          \* the piece in which the password of a user stands
    MaxChanges,
    MaxFailures,
    MaxExits,
    NoName,
    NoPassword

ASSUME ConstantsAssumption ==
    /\ Entry \in [Names -> Users]
    /\ Users \subseteq Names
    /\ Admins \subseteq Users /\ ReadOnly \subseteq Users
    /\ NoName \notin Names /\ NoPassword \notin Passwords
    /\ GroupBits \in Nat \ {0} /\ FileSize \in Nat \ {0}
    /\ Place \in [Users -> 1 .. FileSize]
    /\ {MaxChanges, MaxFailures, MaxExits} \subseteq Nat

GroupNames == UNION {ToSet(lists[u]) : lists \in GroupLists, u \in Users}

ASSUME GroupsAssumption ==
    /\ Order \in Seq(Users)
    /\ \A lists \in GroupLists, u \in Users : lists[u] \in Seq(GroupNames)

VARIABLES
    pc,             \* "down", "idle", or the next call of write_user_data
    file,           \* the file as the system calls read and write it
    disk,           \* what is left of it when the machine fails
    user_data,      \* the password of each user in memory
    all_groups,     \* the names of the groups; the place of a name is its bit
    group_list,     \* what the file says of groups: no request changes that
    peer,           \* user_name and groups of each peer; login follows who
                    \* was authenticated last
    change,         \* the user whose password is being changed, and the new one
    to_write, written,
    acknowledged,   \* the password of the last change that was answered "ok"
    tried,          \* the passwords of the changes since, and those that a
                    \* failure of the machine may have brought back
    older,          \* the passwords acknowledged or tried since all of the
                    \* file was last on the disk, and the ones before them
    mishaps,        \* what went wrong since the file was last begun or read
    counts          \* changes, failures and exits so far

vars == <<pc, file, disk, user_data, all_groups, group_list, peer, change, to_write, written,
          acknowledged, tried, older, mishaps, counts>>

fileVars == <<file, disk, older>>
daemonVars == <<fileVars, all_groups, group_list, peer>>
historyVars == <<acknowledged, tried, mishaps>>

-----------------------------------------------------------------------------
(* The file                                                                *)

Standing(i) == {u \in Users : Place[u] = i}

\* What the kernel has made room for and not yet written
Hole == [place |-> 0, users |-> [u \in {} |-> NoPassword]]

Data(d) == [i \in 1 .. FileSize |-> [place |-> i, users |-> [u \in Standing(i) |-> d[u]]]]

\* cJSON_ParseWithOpts takes the object at the start and ignores what follows.
\* Pieces of two texts are told apart by the passwords in them only.
Readable(f) ==
    /\ Len(f) >= FileSize
    /\ \A i \in 1 .. FileSize : f[i].place = i

Stored(f) == [u \in Users |-> f[Place[u]].users[u]]

-----------------------------------------------------------------------------
(* Groups                                                                  *)

\* The names of all users in the order of the file.
AllNames(lists) == FlattenSeq([n \in DOMAIN Order |-> lists[Order[n]]])

\* is_in_groups and the end of add_group
AddGroup(groups, name) ==
    IF name \in ToSet(groups) THEN groups ELSE Append(groups, name)

\* add_groups for all users, except for the names at the places `lost'
AddGroups(names, lost) ==
    LET groups[i \in 0 .. Len(names)] ==
            CASE i = 0 -> <<>>
              [] i # 0 /\ i \in lost -> groups[i - 1]
              [] OTHER -> AddGroup(groups[i - 1], names[i])
    IN  groups[Len(names)]

\* Mutant of Supported: the table is full one name too late.
SupportedTooMany(groups) == Len(groups) <= GroupBits + 1

\* add_group refuses the file rather than a name that has no bit.
Supported(groups) == Len(groups) <= GroupBits

\* get_groups: the set of bits; a shift by the width of group_t or more wraps.
GetGroups(names) ==
    {(j - 1) % GroupBits : j \in {x \in DOMAIN all_groups : all_groups[x] \in names}}

HasAccess(has, wants) == has \cap wants # {}

-----------------------------------------------------------------------------
Nobody == [user_name |-> NoName, login |-> NoName, groups |-> {}]

\* The administrator has written the file.
Init ==
    /\ pc = "down"
    /\ user_data \in {[u \in Users |-> pw] : pw \in Passwords}
    /\ file = Data(user_data) /\ disk = file
    /\ group_list \in GroupLists
    /\ all_groups = <<>>
    /\ peer = [p \in Peers |-> Nobody]
    /\ change = [user |-> NoName, passwd |-> NoPassword]
    /\ to_write = 0 /\ written = 0
    /\ acknowledged = user_data
    /\ tried = [u \in Users |-> {}]
    /\ older = [u \in Users |-> {user_data[u]}]
    /\ mishaps = {}
    /\ counts = [changes |-> 0, failures |-> 0, exits |-> 0]

CanFail == counts.failures < MaxFailures

OneFailure == counts' = [counts EXCEPT !.failures = @ + 1]

\* load_passwd_data: a name there is no memory for is left out in silence.
\* The daemon does not start with a file it cannot read.
LoadPasswdData ==
    /\ pc = "down"
    /\ Readable(file)
    /\ LET names == AllNames(group_list)
       IN  \/ all_groups' = AddGroups(names, {}) /\ counts' = counts
           \/ /\ CanFail /\ OneFailure
              /\ \E i \in DOMAIN names : all_groups' = AddGroups(names, {i})
    /\ Supported(all_groups')
    /\ user_data' = Stored(file)
    /\ mishaps' = {}
    /\ pc' = "idle"
    /\ UNCHANGED <<fileVars, group_list, peer, change, to_write, written, acknowledged, tried>>

Ends ==
    /\ counts.exits < MaxExits
    /\ counts' = [counts EXCEPT !.exits = @ + 1]
    /\ pc' = "down"
    /\ peer' = [p \in Peers |-> Nobody]
    /\ all_groups' = <<>>
    /\ UNCHANGED <<user_data, group_list, change, to_write, written, acknowledged>>

\* The process ends or is killed, at any moment.  The file stays as it was
\* written.
Exit ==
    /\ pc # "down"
    /\ Ends
    /\ mishaps' = IF pc = "idle" THEN mishaps ELSE mishaps \cup {"exit"}
    /\ UNCHANGED <<fileVars, tried>>

\* The kernel takes a part of the file to the disk: its size, or a piece.
\* Without fsync it does so at any time and in any order.
WriteBack ==
    /\ disk # file
    /\ \/ \E size \in {Len(file)} \cup Len(disk) .. Len(file) :
              disk' = [i \in 1 .. size |-> IF i \in DOMAIN disk THEN disk[i] ELSE Hole]
       \/ \E i \in DOMAIN disk \cap DOMAIN file :
              disk' = [disk EXCEPT ![i] = file[i]]
    /\ older' = IF disk' = file THEN [u \in Users |-> {acknowledged[u]} \cup tried[u]] ELSE older
    /\ UNCHANGED <<pc, file, user_data, all_groups, group_list, peer, change, to_write, written,
                   acknowledged, tried, mishaps, counts>>

\* The machine fails, whether the daemon runs or not, and with it goes what
\* the kernel has not yet taken to the disk.
MachineFails ==
    /\ disk # file
    /\ Ends
    /\ file' = disk
    /\ tried' = older
    /\ mishaps' = mishaps \cup {"machine"}
    /\ UNCHANGED <<disk, older>>

-----------------------------------------------------------------------------
(* handle_authentication and credentials_ok.  A wrong user or password     *)
(* changes nothing, the peer stays who it was.                             *)

CredentialsOk(name, passwd) == user_data[Entry[name]] = passwd

Authenticate(p, name, passwd) ==
    /\ pc = "idle"
    /\ CredentialsOk(name, passwd)
    /\ \/ peer' = [peer EXCEPT ![p] =
                [user_name |-> name, login |-> name,
                 groups |-> GetGroups(ToSet(group_list[Entry[name]]))]] /\ counts' = counts
       \/ \* no memory for the name: the answer is an error, the groups stay
          /\ CanFail /\ OneFailure
          /\ peer' = [peer EXCEPT ![p] =
                [user_name |-> NoName, login |-> name,
                 groups |-> GetGroups(ToSet(group_list[Entry[name]]))]]
    /\ UNCHANGED <<pc, fileVars, user_data, all_groups, group_list, change, to_write, written,
                   acknowledged, tried, mishaps>>

-----------------------------------------------------------------------------
(* change_password                                                         *)

\* The name is compared as it was spelled at login, the entry is found by any
\* spelling.
Entitled(p, name) ==
    /\ peer[p].user_name # NoName
    /\ Entry[name] \notin ReadOnly
    /\ \/ peer[p].user_name = name
       \/ Entry[peer[p].user_name] \in Admins
    /\ user_data[Entry[name]] # NoPassword

\* The new password replaces the old one in memory, unless memory is short:
\* cJSON_ReplaceItemInObject ignores a string that could not be created, and
\* loses the key of one when the key cannot be copied.
ReplacePassword(p, name, passwd) ==
    LET u == Entry[name]
    IN  /\ pc = "idle"
        /\ counts.changes < MaxChanges
        /\ Entitled(p, name)
        /\ \/ /\ user_data' = [user_data EXCEPT ![u] = passwd]
              /\ counts' = [counts EXCEPT !.changes = @ + 1]
           \/ /\ CanFail
              /\ \/ user_data' = user_data
                 \/ user_data' = [user_data EXCEPT ![u] = NoPassword]
              /\ counts' = [counts EXCEPT !.changes = @ + 1, !.failures = @ + 1]
        /\ tried' = [tried EXCEPT ![u] = @ \cup {passwd, user_data'[u]}]
        /\ older' = [older EXCEPT ![u] = @ \cup {passwd, user_data'[u]}]
        /\ change' = [user |-> u, passwd |-> passwd]
        /\ pc' = "truncate"
        /\ UNCHANGED <<file, disk, all_groups, group_list, peer, to_write, written, acknowledged,
                       mishaps>>

\* Mutant of Fails: write_user_data reports a success it did not have.
FailsUnnoticed(what) ==
    /\ CanFail /\ OneFailure
    /\ pc' = "idle"
    /\ acknowledged' = [acknowledged EXCEPT ![change.user] = change.passwd]
    /\ UNCHANGED <<user_data, change, tried, mishaps>>

\* write_user_data fails: an error is the answer, memory keeps the change.
Fails(what) ==
    /\ CanFail /\ OneFailure
    /\ mishaps' = mishaps \cup {what}
    /\ pc' = "idle"
    /\ UNCHANGED <<user_data, change, acknowledged, tried>>

Truncate ==
    /\ pc = "truncate"
    /\ file' = <<>>
    /\ mishaps' = {}
    /\ pc' = "print"
    /\ UNCHANGED <<disk, user_data, all_groups, group_list, peer, change, to_write, written, counts,
                   acknowledged, tried, older>>

TruncateFails ==
    /\ pc = "truncate"
    /\ Fails("truncate")
    /\ UNCHANGED <<daemonVars, to_write, written>>

\* cJSON_Print
Print_ ==
    /\ pc = "print"
    /\ to_write' = FileSize /\ written' = 0
    /\ pc' = "write"
    /\ UNCHANGED <<user_data, daemonVars, change, counts, historyVars>>

PrintFails ==
    /\ pc = "print"
    /\ Fails("print")
    /\ UNCHANGED <<daemonVars, to_write, written>>

\* One write.  After a short one the loop begins again at the start of the
\* text, and it ends as soon as less is left than was written last.
Write ==
    /\ pc = "write" /\ written < to_write
    /\ \E w \in 1 .. to_write :
          /\ w < to_write => CanFail
          /\ counts' = [counts EXCEPT !.failures = IF w < to_write THEN @ + 1 ELSE @]
          /\ mishaps' = IF w < to_write THEN mishaps \cup {"short write"} ELSE mishaps
          /\ file' = file \o SubSeq(Data(user_data), 1, w)
          /\ written' = w
          /\ to_write' = to_write - w
    /\ UNCHANGED <<pc, disk, user_data, all_groups, group_list, peer, change, acknowledged, tried,
                   older>>

WriteFails ==
    /\ pc = "write" /\ written < to_write
    /\ Fails("write")
    /\ UNCHANGED <<daemonVars, to_write, written>>

\* The loop has ended and "ok" is the answer, whatever became of the new
\* password in memory.
ChangeDone ==
    /\ pc = "write" /\ written >= to_write
    /\ pc' = "idle"
    /\ IF user_data[change.user] = change.passwd
       THEN /\ acknowledged' = [acknowledged EXCEPT ![change.user] = change.passwd]
            /\ tried' = [tried EXCEPT ![change.user] = {}]
       ELSE UNCHANGED <<acknowledged, tried>>
    /\ UNCHANGED <<user_data, daemonVars, change, to_write, written, mishaps, counts>>

-----------------------------------------------------------------------------
Next ==
    \/ LoadPasswdData
    \/ \E p \in Peers, name \in Names, passwd \in Passwords :
          Authenticate(p, name, passwd) \/ ReplacePassword(p, name, passwd)
    \/ Truncate \/ TruncateFails
    \/ Print_ \/ PrintFails
    \/ Write \/ WriteFails
    \/ ChangeDone
    \/ Exit \/ MachineFails
    \/ WriteBack

Spec == Init /\ [][Next]_vars

-----------------------------------------------------------------------------
(* Properties                                                              *)

TypeOK ==
    /\ pc \in {"down", "idle", "truncate", "print", "write"}
    /\ {file, disk} \subseteq Seq({Hole} \cup UNION {
            [place : {i}, users : [Standing(i) -> Passwords \cup {NoPassword}]] : i \in 1 .. FileSize})
    /\ user_data \in [Users -> Passwords \cup {NoPassword}]
    /\ Supported(all_groups)
    /\ peer \in [Peers -> [user_name : Names \cup {NoName}, login : Names \cup {NoName},
                           groups : SUBSET (0 .. GroupBits - 1)]]
    /\ to_write \in 0 .. FileSize /\ written \in 0 .. FileSize
    /\ mishaps \subseteq {"exit", "machine", "truncate", "print", "write", "short write"}

\* Between two requests, and after the daemon has ended, the file can be read
\* and says what memory says, unless the last rewriting of it was interrupted,
\* failed or wrote short, or the machine failed before the kernel had taken the
\* file to the disk (write_user_data); a change memory was too short for is
\* lost in both.
MemoryMatchesFile ==
    pc \in {"idle", "down"} /\ mishaps = {} =>
        Readable(file) /\ Stored(file) = user_data

\* A file that can be read holds for every user the password of the last
\* change that was acknowledged, or that of a later attempt, whichever calls
\* failed and wherever the process ended.  Only a failure of the machine may
\* bring an older one back, for no change is synchronised before it is
\* acknowledged (write_user_data), and then none that is older than the last
\* time all of the file was on the disk, even if pieces of several texts have
\* become one.
NoOldPassword ==
    Readable(file) =>
        \A u \in Users : Stored(file)[u] \in {acknowledged[u]} \cup tried[u]

\* The bits a peer was given at login open what the names of its groups open,
\* and nothing else (get_groups, has_access): no two names share a bit.
AccessByName ==
    pc # "down" => \A p \in Peers, wanted \in SUBSET GroupNames :
        HasAccess(peer[p].groups, GetGroups(wanted)) <=>
            /\ peer[p].login # NoName
            /\ ToSet(group_list[Entry[peer[p].login]]) \cap wanted \cap ToSet(all_groups) # {}
=============================================================================
