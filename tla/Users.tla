------------------------------- MODULE Users --------------------------------
(***************************************************************************)
(* The user database: /etc/passwd and /etc/group, the library that reads   *)
(* and rewrites them (user/userhandler.c, user/grouphandler.c) and the     *)
(* commands useradd, usermod, groupadd and passwd, and the login of getty. *)
(*                                                                         *)
(* Data.  A line of passwd is the tuple of its fields, a line of group has *)
(* the names of its members; the real name is left out.  Fields hold no    *)
(* ':' ',' or newline and are shorter than STRING_SIZE.  A name in a group *)
(* line becomes the user who has it when the line is read.  Number and     *)
(* Split say which words are numbers and which are lists of names.  What   *)
(* main and malloc leave uninitialised is empty (the pages are new), but   *)
(* for the user that useradd has freed: see AddNewGroup.                   *)
(*                                                                         *)
(* Granularity.  A job is a running command.  Between two rewrites of a    *)
(* file a job only reads, and this is one step.  A rewrite (unlink,        *)
(* create, one write per line) is one step too, unless the machine stops   *)
(* in the middle: each of its system calls is a transaction, and a prefix  *)
(* of them is on the disk.  Home directories are those of /home, and none  *)
(* is removed.  Anyone may run the commands, and rewrite both files: only  *)
(* a directory in /home, which is root's, is not made for anyone else.     *)
(***************************************************************************)
EXTENDS Integers, Sequences, FiniteSets, SequencesExt

CONSTANTS
  Job,         \* running commands
  Command,     \* the command lines an instance may run, with what is typed
  Passwd0,     \* the lines of /etc/passwd and /etc/group on the image,
  Group0,
  Number, Split,   \* words that are numbers, words that list several names
  MaxGroups,   \* bound: groupadd is not run when there are that many groups
  Crashes      \* bound: how often the machine stops

ROOT == 0
NoArg == -1
NoUser == [name |-> "", pw |-> "", uid |-> 0, gid |-> 0, home |-> ""]

VARIABLES
  passwd, group,   \* the files: <<lines>>, or <<>> when there is none
  home,        \* the directories of /home, with the uid and gid that own them
  pc, cmd,     \* where a job is, and its command
  cur, mod,    \* currUser (or newUser) and modUser of a job
  out,         \* the file a job is about to rewrite, its lines, where it goes next
  session,     \* the uid getty gave to the shell, or NoArg
  crashes,     \* how often the machine has stopped
  halfway      \* history: homes with a new owner from a usermod that has not
               \* ended well, or with an old one after a crash

vars == <<passwd, group, home, pc, cmd, cur, mod, out, session, crashes, halfway>>
files == <<passwd, group>>

NoOut == [file |-> "none", lines |-> <<>>, then |-> "idle"]

\* The homes on the image, and the owner of a home there, or of one that mkdir made:
\* create leaves the owner that ialloc gave the inode, which is root.
ImageHomes == {l[5] : l \in ToSet(Passwd0)}
FirstOwner(d) ==
  IF d \in ImageHomes
  THEN LET l == CHOOSE l \in ToSet(Passwd0) : l[5] = d IN <<l[3], l[4]>>
  ELSE <<ROOT, ROOT>>

Init ==
  /\ passwd = <<Passwd0>> /\ group = <<Group0>>
  /\ home = [d \in ImageHomes |-> FirstOwner(d)]
  /\ pc = [j \in Job |-> "idle"]
  /\ cmd = [j \in Job |-> [op |-> "none"]]
  /\ cur = [j \in Job |-> NoUser] /\ mod = [j \in Job |-> NoUser]
  /\ out = [j \in Job |-> NoOut]
  /\ session = NoArg
  /\ crashes = 0
  /\ halfway = {}

-----------------------------------------------------------------------------
(* The library: reading the files.                                         *)

\* u goes behind the users with its uid or a smaller one.
AddUserToListSorted(list, u) ==
  SelectSeq(list, LAMBDA v : v.uid <= u.uid) \o <<u>>
    \o SelectSeq(list, LAMBDA v : v.uid > u.uid)

AddGroupToListSorted(list, g) ==
  SelectSeq(list, LAMBDA h : h.gid <= g.gid) \o <<g>>
    \o SelectSeq(list, LAMBDA h : h.gid > g.gid)

GetUserFromString(line) ==
  [name |-> line[1], pw |-> line[2], uid |-> line[3], gid |-> line[4], home |-> line[5]]

\* Mutant of GetStringFromUser: uid and gid are swapped.
GetStringFromUser_Swapped(u) == <<u.name, u.pw, u.gid, u.uid, u.home>>

GetStringFromUser(u) == <<u.name, u.pw, u.uid, u.gid, u.home>>

SelectAllUsers ==
  FoldLeft(LAMBDA list, line : AddUserToListSorted(list, GetUserFromString(line)),
           <<>>, passwd[1])

\* <<>>, or the first user with this name (uid), alone in a list.
GetUserFromUsername(n) ==
  LET found == SelectSeq(SelectAllUsers, LAMBDA u : u.name = n)
  IN  SubSeq(found, 1, IF found = <<>> THEN 0 ELSE 1)
GetUserFromUid(id) ==
  LET found == SelectSeq(SelectAllUsers, LAMBDA u : u.uid = id)
  IN  SubSeq(found, 1, IF found = <<>> THEN 0 ELSE 1)

IsUidAvailable(id) == \A u \in ToSet(SelectAllUsers) : u.uid # id

\* Mutant of GetNextAvailableUid: the users above 1000 are counted.
GetNextAvailableUid_Count == 1000 + Len(SelectSeq(SelectAllUsers, LAMBDA u : u.uid > 1000))

GetNextAvailableUid ==
  FoldLeft(LAMBDA id, u : IF u.uid = id THEN id + 1 ELSE id, 1000, SelectAllUsers)

\* A line of group becomes a group: a name that no user has is dropped.
GetGroupFromString(line) ==
  [name |-> line.name, gid |-> line.gid,
   userList |-> FoldLeft(LAMBDA list, n :
                  LET u == GetUserFromUsername(n)
                  IN  IF u = <<>> THEN list ELSE AddUserToListSorted(list, u[1]),
                  <<>>, line.members)]

SelectAllGroups ==
  FoldLeft(LAMBDA list, line : AddGroupToListSorted(list, GetGroupFromString(line)),
           <<>>, group[1])

GetStringFromGroup(g) ==
  [name |-> g.name, gid |-> g.gid,
   members |-> [i \in DOMAIN g.userList |-> g.userList[i].name]]

UserLines(userList) == [i \in DOMAIN userList |-> GetStringFromUser(userList[i])]
Lines(groupList) == [i \in DOMAIN groupList |-> GetStringFromGroup(groupList[i])]

IsGidAvailable(id) == \A g \in ToSet(SelectAllGroups) : g.gid # id

GetNextAvailableGid ==
  FoldLeft(LAMBDA id, g : IF g.gid = id THEN id + 1 ELSE id, 1000, SelectAllGroups)

GetGroupFromGroupname(n) ==
  LET found == SelectSeq(SelectAllGroups, LAMBDA g : g.name = n)
  IN  SubSeq(found, 1, IF found = <<>> THEN 0 ELSE 1)

\* The groups of a comma-separated list that exist, in the order of their gids.
GetMultipleGroups(names) ==
  FoldLeft(LAMBDA list, n :
             LET g == GetGroupFromGroupname(n)
             IN  IF g = <<>> THEN list ELSE AddGroupToListSorted(list, g[1]),
           <<>>, names)

IsUserInGroup(u, g) == \E v \in ToSet(g.userList) : v.uid = u.uid

\* removeUserFromCurrGroup, when it returns: not from the user's own group, which
\* is the one with the user's name.
RemoveUserFromCurrGroup(g, u) ==
  IF g.name = u.name THEN g
  ELSE [g EXCEPT !.userList = SelectSeq(@, LAMBDA v : v.uid # u.uid)]

\* It follows a null pointer when the user is the last of several members.
RemovalFaults(g, u) ==
  /\ g.name # u.name
  /\ Len(g.userList) > 1
  /\ Last(g.userList).uid = u.uid

\* addUserToGroups: one walk through all groups beside one through the wanted ones.
\* The same node goes into every list, so that its next pointer, set by the last
\* insertion into a list that is not empty, is shared by all of them.
AddUserToGroups(wanted, u) ==
  LET all == SelectAllGroups
      after(g) == SelectSeq(g.userList, LAMBDA v : v.uid > u.uid)
      walk == FoldLeft(
        LAMBDA w, g :
          IF w.wanted = <<>> \/ Head(w.wanted).gid # g.gid THEN w
          ELSE IF IsUserInGroup(u, g) THEN [w EXCEPT !.wanted = Tail(@)]
          ELSE [wanted |-> Tail(w.wanted), joined |-> w.joined \cup {g.gid},
                next |-> IF g.userList = <<>> THEN w.next ELSE after(g)],
        [wanted |-> wanted, joined |-> {}, next |-> <<>>], all)
  IN [i \in DOMAIN all |->
        IF all[i].gid \notin walk.joined THEN all[i]
        ELSE [all[i] EXCEPT !.userList =
                SelectSeq(@, LAMBDA v : v.uid <= u.uid) \o <<u>> \o walk.next]]

-----------------------------------------------------------------------------
(* The command line.                                                       *)

Atoi(w) == IF w \in DOMAIN Number THEN Number[w] ELSE 0
Names(w) == IF w \in DOMAIN Split THEN Split[w] ELSE <<w>>

\* getPositionInArguments of the three programs: options with a value, and flags.
Valued(op) == CASE op = "useradd"  -> {"-d", "-u", "-c"}
                [] op = "usermod"  -> {"-l", "-u", "-c", "-d", "-G"}
                [] op = "groupadd" -> {"-g"}
                [] OTHER -> {}
Flag(op) == IF op = "usermod" THEN {"-m", "-a"} ELSE {}

\* parseCommandLineArguments: <<>>, or the value of every option, "" if it is not
\* given.  The last word is the name, and may be taken as a value besides.
ParseArguments(op, argv) ==
  LET last == Len(argv)
      from[i \in 1 .. last + 1] ==
        IF i >= last THEN <<[o \in Valued(op) \cup Flag(op) |-> ""]>>
        ELSE IF argv[i] \in Flag(op)
        THEN [k \in DOMAIN from[i + 1] |-> [from[i + 1][k] EXCEPT ![argv[i]] = "1"]]
        ELSE IF argv[i] \in Valued(op)
        THEN [k \in DOMAIN from[i + 2] |->
                [from[i + 2][k] EXCEPT ![argv[i]] = IF @ = "" THEN argv[i + 1] ELSE @]]
        ELSE <<>>
  IN IF last = 0 THEN <<>> ELSE from[1]

-----------------------------------------------------------------------------
(* Steps of jobs.                                                          *)

Goto(j, l) == pc' = [pc EXCEPT ![j] = l]

\* The command exits.
Exit(j) ==
  /\ Goto(j, "idle")
  /\ cmd' = [cmd EXCEPT ![j] = [op |-> "none"]]
  /\ cur' = [cur EXCEPT ![j] = NoUser] /\ mod' = [mod EXCEPT ![j] = NoUser]
  /\ out' = [out EXCEPT ![j] = NoOut]

\* updatePasswdFile or updateGroupFile is called with these lines.
Update(j, f, lines, l) ==
  /\ out' = [out EXCEPT ![j] = [file |-> f, lines |-> lines, then |-> l]]
  /\ Goto(j, "rewrite")

At(j, l) == pc[j] = l /\ passwd # <<>> /\ group # <<>>

\* The shell starts a command.
Start(j, c) ==
  LET a == ParseArguments(c.op, c.argv) IN
  /\ At(j, "idle")
  /\ session # NoArg
  /\ c.op = "groupadd" => Len(group[1]) < MaxGroups
  /\ c.op # "passwd" => a # <<>>
  /\ Goto(j, c.op)
  /\ cmd' = [cmd EXCEPT ![j] =
       IF c.op = "passwd" THEN c ELSE [op |-> c.op, arg |-> a[1], name |-> Last(c.argv)]]
  /\ UNCHANGED <<files, home, cur, mod, out, session, crashes, halfway>>

\* The uid for an argument of -u, or NoArg if the command must fail.
NewUid(w) ==
  IF Atoi(w) # 0 /\ IsUidAvailable(Atoi(w)) THEN Atoi(w) ELSE NoArg

\* mkdir of a directory in /home: validateWrite lets only root change it.
MkdirFails(d) == session # ROOT \/ d \in DOMAIN home

\* Mutant of CreateUser: the new uid serves as the gid.
CreateUser_UidAsGid(j) ==
  LET c == cmd[j]
      u == [name |-> c.name, pw |-> "",
            uid |-> IF c.arg["-u"] = "" THEN GetNextAvailableUid ELSE NewUid(c.arg["-u"]),
            gid |-> IF c.arg["-u"] = "" THEN GetNextAvailableUid ELSE NewUid(c.arg["-u"]),
            home |-> IF c.arg["-d"] = "" THEN c.name ELSE c.arg["-d"]]
  IN
  /\ At(j, "useradd")
  /\ IF u.uid = NoArg \/ MkdirFails(u.home)
     THEN Exit(j) /\ UNCHANGED home
     ELSE /\ home' = [d \in DOMAIN home \cup {u.home} |->
                        IF d = u.home THEN <<u.uid, u.gid>> ELSE home[d]]
          /\ cur' = [cur EXCEPT ![j] = u]
          /\ Goto(j, "addNewUser")
          /\ UNCHANGED <<cmd, mod, out>>
  /\ UNCHANGED <<files, session, crashes, halfway>>

\* useradd: createUser, with the mkdir and chown of the home directory.
CreateUser(j) ==
  LET c == cmd[j]
      u == [name |-> c.name, pw |-> "",
            uid |-> IF c.arg["-u"] = "" THEN GetNextAvailableUid ELSE NewUid(c.arg["-u"]),
            gid |-> GetNextAvailableGid,
            home |-> IF c.arg["-d"] = "" THEN c.name ELSE c.arg["-d"]]
  IN
  /\ At(j, "useradd")
  /\ IF u.uid = NoArg \/ MkdirFails(u.home)
     THEN Exit(j) /\ UNCHANGED home
     ELSE /\ home' = [d \in DOMAIN home \cup {u.home} |->
                        IF d = u.home THEN <<u.uid, u.gid>> ELSE home[d]]
          /\ cur' = [cur EXCEPT ![j] = u]
          /\ Goto(j, "addNewUser")
          /\ UNCHANGED <<cmd, mod, out>>
  /\ UNCHANGED <<files, session, crashes, halfway>>

AddNewUser(j) ==
  /\ At(j, "addNewUser")
  /\ Update(j, "passwd", UserLines(AddUserToListSorted(SelectAllUsers, cur[j])),
            "addNewGroup")
  /\ UNCHANGED <<files, home, cmd, cur, mod, session, crashes, halfway>>

\* createGroup: the group, with gid NoArg when the argument of -g is refused.
CreateGroup(name, w, userList) ==
  [name |-> name,
   gid |-> IF w = "" THEN GetNextAvailableGid
           ELSE IF Atoi(w) # 0 /\ IsGidAvailable(Atoi(w)) THEN Atoi(w) ELSE NoArg,
   userList |-> userList]

\* createGroup and addNewGroup, in useradd (after the user is in passwd) and in
\* groupadd.  useradd takes the name from newUser, which addNewUser has freed.  It is
\* still there when createGroup copies it into the group, but by the time the member
\* is looked up other users and groups have been read over it: the member is the user
\* whose name it then holds, or nobody.
AddNewGroup(j) ==
  LET c == cmd[j]
      useradd == c.op = "useradd"
      byName == {GetUserFromUsername(l[1]) : l \in ToSet(passwd[1])} \cup {<<>>}
  IN
  /\ At(j, "addNewGroup") \/ At(j, "groupadd")
  /\ \E userList \in IF useradd THEN byName ELSE {<<>>} :
       LET g == CreateGroup(c.name, IF useradd THEN "" ELSE c.arg["-g"], userList)
       IN  IF g.gid = NoArg THEN Exit(j)
           ELSE /\ Update(j, "group", Lines(AddGroupToListSorted(SelectAllGroups, g)), "exit")
                /\ UNCHANGED <<cmd, cur, mod>>
  /\ UNCHANGED <<files, home, session, crashes, halfway>>

\* usermod: the user is looked up; modifyUser up to the groups.  A new uid goes to
\* the home directory at once.
ModifyUser(j) ==
  LET c == cmd[j]
      login == c.arg["-l"]
      chuid == c.arg["-u"] # ""
      found == GetUserFromUsername(c.name)
      u == found[1]
      id == IF chuid THEN NewUid(c.arg["-u"]) ELSE u.uid
  IN
  /\ At(j, "usermod")
  /\ IF found = <<>> \/ (login # "" /\ GetUserFromUsername(login) # <<>>)
        \/ id = NoArg
     THEN Exit(j) /\ UNCHANGED <<home, halfway>>
     ELSE /\ cur' = [cur EXCEPT ![j] = u]
          /\ mod' = [mod EXCEPT ![j] =
               [u EXCEPT !.uid = id, !.name = IF login = "" THEN @ ELSE login]]
          /\ home' = IF chuid THEN [home EXCEPT ![u.home] = <<id, u.gid>>] ELSE home
          /\ halfway' = IF chuid THEN halfway \cup {u.home} ELSE halfway
          /\ Goto(j, IF c.arg["-G"] = "" THEN "homedir"
                     ELSE IF c.arg["-a"] # "" THEN "addGroups" ELSE "removeGroups")
          /\ UNCHANGED <<cmd, out>>
  /\ UNCHANGED <<files, session, crashes>>

\* removeUserFromAllGroups.  What follows a null pointer may kill the process.
RemoveGroups(j) ==
  LET all == SelectAllGroups IN
  /\ At(j, "removeGroups")
  /\ \/ /\ Update(j, "group",
                  Lines([i \in DOMAIN all |-> RemoveUserFromCurrGroup(all[i], cur[j])]),
                  "addGroups")
        /\ UNCHANGED <<cmd, cur, mod>>
     \/ /\ \E g \in ToSet(all) : RemovalFaults(g, cur[j])
        /\ Exit(j)
  /\ UNCHANGED <<files, home, session, crashes, halfway>>

AddGroups(j) ==
  /\ At(j, "addGroups")
  /\ Update(j, "group", Lines(AddUserToGroups(GetMultipleGroups(Names(cmd[j].arg["-G"])), cur[j])),
            "homedir")
  /\ UNCHANGED <<files, home, cmd, cur, mod, session, crashes, halfway>>

\* The end of modifyUser: a new home directory is made, and given to the user.
HomeDir(j) ==
  LET d == cmd[j].arg["-d"] IN
  /\ At(j, "homedir")
  /\ IF d = "" THEN Goto(j, "updateUserInfo") /\ UNCHANGED <<home, cmd, cur, mod, out>>
     ELSE IF MkdirFails(d) THEN Exit(j) /\ UNCHANGED home
     ELSE /\ home' = [e \in DOMAIN home \cup {d} |->
                        IF e = d THEN <<mod[j].uid, mod[j].gid>> ELSE home[e]]
          /\ mod' = [mod EXCEPT ![j].home = d]
          /\ Goto(j, "updateUserInfo")
          /\ UNCHANGED <<cmd, cur, out>>
  /\ UNCHANGED <<files, session, crashes, halfway>>

\* passwd: whose password, the old one (not asked of root), the new one, twice.
Passwd(j) ==
  LET c == cmd[j]
      other == c.argv # <<>>
      found == IF other THEN GetUserFromUsername(c.argv[1]) ELSE GetUserFromUid(session)
      u == found[1]
  IN
  /\ At(j, "passwd")
  /\ IF \/ other /\ session # ROOT
        \/ found = <<>>
        \/ session # ROOT /\ c.old # u.pw
        \/ Len(c.new) <= 6
        \/ c.retype # c.new
     THEN Exit(j)
     ELSE /\ cur' = [cur EXCEPT ![j] = [u EXCEPT !.pw = c.new]]
          /\ mod' = [mod EXCEPT ![j] = [u EXCEPT !.pw = c.new]]
          /\ Goto(j, "updateUserInfo")
          /\ UNCHANGED <<cmd, out>>
  /\ UNCHANGED <<files, home, session, crashes, halfway>>

\* Mutant of UpdateUserInfo: the loop does not stop at the user, who gets lost.
UpdateUserInfo_Drops(j) ==
  /\ At(j, "updateUserInfo")
  /\ Update(j, "passwd", UserLines(SelectSeq(SelectAllUsers, LAMBDA u : u.uid <= cur[j].uid)),
            "exit")
  /\ UNCHANGED <<files, home, cmd, cur, mod, session, crashes, halfway>>

\* The first user with currUser's uid becomes modUser.
UpdateUserInfo(j) ==
  LET all == SelectAllUsers
      same == {i \in DOMAIN all : all[i].uid = cur[j].uid}
  IN
  /\ At(j, "updateUserInfo")
  /\ Update(j, "passwd",
            UserLines([i \in DOMAIN all |->
              IF i \in same /\ \A k \in same : i <= k THEN mod[j] ELSE all[i]]),
            "exit")
  /\ UNCHANGED <<files, home, cmd, cur, mod, session, crashes, halfway>>

\* The file is rewritten, and the command goes on or exits.
Rewrite(j) ==
  LET o == out[j] IN
  /\ pc[j] = "rewrite"
  /\ IF o.file = "passwd" THEN passwd' = <<o.lines>> /\ UNCHANGED group
                          ELSE group' = <<o.lines>> /\ UNCHANGED passwd
  /\ IF o.then = "exit"
     THEN /\ Exit(j)
          /\ halfway' = IF cmd[j].op = "usermod" /\ cmd[j].arg["-u"] # ""
                        THEN halfway \ {cur[j].home} ELSE halfway
     ELSE /\ Goto(j, o.then)
          /\ out' = [out EXCEPT ![j] = NoOut]
          /\ UNCHANGED <<cmd, cur, mod, halfway>>
  /\ UNCHANGED <<home, session, crashes>>

\* The machine stops and boots again.  A rewrite that was under way has removed
\* the file, and perhaps written it again up to some line.  chown and updateDirOwner
\* change an inode in memory only: the owner is on the disk if the inode was written
\* since for another reason, a new entry say; other homes have their first owner again.
Crash ==
  /\ crashes < Crashes
  /\ crashes' = crashes + 1
  /\ \E torn \in {out[j].file : j \in Job} \cup {"none"} :
       \/ torn = "none" /\ UNCHANGED files
       \/ \E j \in Job :
            /\ torn # "none" /\ out[j].file = torn
            /\ \E f \in {<<>>} \cup {<<SubSeq(out[j].lines, 1, n)>> : n \in 0 .. Len(out[j].lines)} :
                 IF torn = "passwd" THEN passwd' = f /\ UNCHANGED group
                                    ELSE group' = f /\ UNCHANGED passwd
  /\ pc' = [j \in Job |-> "idle"]
  /\ cmd' = [j \in Job |-> [op |-> "none"]]
  /\ cur' = [j \in Job |-> NoUser] /\ mod' = [j \in Job |-> NoUser]
  /\ out' = [j \in Job |-> NoOut]
  /\ session' = NoArg
  /\ \E reset \in SUBSET {d \in DOMAIN home : home[d] # FirstOwner(d)} :
       /\ home' = [d \in DOMAIN home |-> IF d \in reset THEN FirstOwner(d) ELSE home[d]]
       /\ halfway' = halfway \cup reset

\* getty: authenticateUser, and setuid for the shell.
Login(name, pw) ==
  LET found == SelectSeq(SelectAllUsers, LAMBDA u : u.name = name /\ u.pw = pw) IN
  /\ session = NoArg
  /\ passwd # <<>>
  /\ found # <<>>
  /\ session' = found[1].uid
  /\ UNCHANGED <<files, home, pc, cmd, cur, mod, out, crashes, halfway>>

\* The shell ends, and init starts getty again.
Logout ==
  /\ session # NoArg
  /\ \A j \in Job : pc[j] = "idle"
  /\ session' = NoArg
  /\ UNCHANGED <<files, home, pc, cmd, cur, mod, out, crashes, halfway>>

Next ==
  \/ \E j \in Job :
       \/ \E c \in Command : Start(j, c)
       \/ CreateUser(j) \/ AddNewUser(j) \/ AddNewGroup(j)
       \/ ModifyUser(j) \/ RemoveGroups(j) \/ AddGroups(j) \/ HomeDir(j)
       \/ Passwd(j) \/ UpdateUserInfo(j) \/ Rewrite(j)
  \/ passwd # <<>> /\ \E l \in ToSet(passwd[1]) : Login(l[1], l[2])
  \/ Logout
  \/ Crash

Spec == Init /\ [][Next]_vars

-----------------------------------------------------------------------------
(* Properties.                                                             *)

PasswdLines == IF passwd = <<>> THEN {} ELSE {GetUserFromString(l) : l \in ToSet(passwd[1])}
GroupLines == IF group = <<>> THEN {} ELSE ToSet(group[1])
Idle == \A j \in Job : pc[j] = "idle"

\* README: the uid, and the gid, "needs to be unique".  No two lines of passwd have
\* the same uid, and no two of group the same gid, whatever sequence of commands wrote
\* them, also when a crash has cut a file and commands went on with what was left.
UniqueIds ==
  /\ passwd # <<>> => \A i, k \in DOMAIN passwd[1] :
                        passwd[1][i][3] = passwd[1][k][3] => i = k
  /\ group # <<>> => \A i, k \in DOMAIN group[1] :
                       group[1][i].gid = group[1][k].gid => i = k

\* Between commands everyone has a home directory of their own, owned by the uid
\* and gid that passwd gives them, unless the last usermod that gave it a new owner
\* failed or was cut short, or a crash has taken back an owner that was not on the
\* disk; the next usermod -u that succeeds ends the exception.
HomeOwned ==
  Idle => \A u \in PasswdLines :
            /\ u.home \in DOMAIN home
            /\ u.home \in halfway \/ home[u.home] = <<u.uid, u.gid>>
            /\ \A v \in PasswdLines : v.home = u.home => v = u

\* "With every new user, a group with the same name is added": if the machine has
\* not stopped, every user's gid is that of a group, and no other user has it, although
\* createUser and createGroup choose it one after the other.  The names may differ:
\* usermod -l renames a user and not the group.
GroupOfUser ==
  Idle /\ crashes = 0 =>
    \A u \in PasswdLines : /\ \E g \in GroupLines : g.gid = u.gid
                           /\ \A v \in PasswdLines : v.gid = u.gid => v = u

\* A command rewrites the whole of passwd, but changes or removes no line other
\* than that of its user.
OthersKept ==
  [][crashes' = crashes =>
       \A u \in PasswdLines :
         \/ u \in PasswdLines'
         \/ \E j \in Job : out[j].file = "passwd" /\ cur[j].uid = u.uid]_passwd
=============================================================================
