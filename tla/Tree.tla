-------------------------------- MODULE Tree --------------------------------
(***************************************************************************)
(* The directory tree and its permissions: path lookup (namex), directory  *)
(* entries (dirlookup, dirlink), and the system calls of kernel/sysfile.c  *)
(* that look a path up and then read or change the tree, each with the     *)
(* check (validateRead, validateWrite, validateExecute) it makes before.   *)
(*                                                                         *)
(* Granularity.  namex locks one directory at a time: a step of a lookup   *)
(* is one action, and so is a check, and what a call does with the inodes  *)
(* it has locked.  Other processes run in between.                         *)
(*                                                                         *)
(* Data.  A path is a record of its names.  A mode is the set of its bits  *)
(* that the checks look at.  Entries are in the order in which they are    *)
(* stored; unlink leaves a Hole.  Contents, open files and the cache are   *)
(* in Inode, groups and the disk are left out.                             *)
(***************************************************************************)
EXTENDS Naturals, Sequences, FiniteSets, SequencesExt

CONSTANTS
  Proc, UidOf,       \* processes, and the uid of each
  NINUM,             \* inodes
  Call,              \* the calls: set of <<process, [op, path, arg]>>
  Exempt,            \* names that the checks let pass (passwd, group)
  Node0, Cwd0        \* the file system and the working directories to begin with

Inum == 1 .. NINUM
ROOT == 0
ROOTINO == 1

ASSUME TreeAssumption == UidOf \in [Proc -> Nat] /\ Cwd0 \in [Proc -> Inum]

VARIABLES
  node,     \* [type, nlink, uid, mode, up, ents]: up is the entry ".."
  cwd,
  pc,       \* "user" | "check" | "walk" (in namex), "checked" | "walked" (it returned),
            \* "owner" (in the loop of sys_updateDirOwner)
  call, chk,      \* the call, and the number of the next check
  ip, todo,       \* locals of namex; ip is 0 when it failed
  dp, off,        \* locals of sys_updateDirOwner
  kept,     \* inodes whose reference was not put
  panicked,
  adrift,   \* history: inodes made in a directory that had been removed, and that directory
  astray,   \* history: processes whose ip is the ".." of a directory that has no name
  stale     \* history: processes during whose lookup the tree changed

vars == <<node, cwd, pc, call, chk, ip, todo, dp, off, kept, panicked,
          adrift, astray, stale>>

Hole == <<"", 0>>
Mode0644 == {<<"u", "r">>, <<"u", "w">>, <<"o", "r">>}
NoNode == [type |-> "none", nlink |-> 0, uid |-> 0, mode |-> {}, up |-> 0, ents |-> <<>>]
NoCall == [op |-> "none", path |-> [abs |-> FALSE, names |-> <<>>], arg |-> 0]

Init ==
  /\ node = Node0 /\ cwd = Cwd0
  /\ pc = [p \in Proc |-> "user"]
  /\ call = [p \in Proc |-> NoCall] /\ chk = [p \in Proc |-> 1]
  /\ ip = [p \in Proc |-> 0] /\ todo = [p \in Proc |-> <<>>]
  /\ dp = [p \in Proc |-> 0] /\ off = [p \in Proc |-> 0]
  /\ kept = {} /\ panicked = "no"
  /\ adrift = {} /\ astray = {} /\ stale = {}

At(p, l) == panicked = "no" /\ pc[p] = l

-----------------------------------------------------------------------------
(* Directories.                                                            *)

\* dirlookup: the inode of the first entry with that name, 0 if there is none.
Dirlookup(i, name) ==
  LET hits == {k \in DOMAIN node[i].ents : node[i].ents[k][1] = name /\ node[i].ents[k][2] # 0}
  IN CASE name = "." -> i
       [] name = ".." -> node[i].up
       [] OTHER -> IF hits = {} THEN 0
                   ELSE node[i].ents[CHOOSE k \in hits : \A l \in hits : k <= l][2]

\* dirlink: the first hole is used again.
Dirlink(ents, entry) ==
  LET holes == {k \in DOMAIN ents : ents[k][2] = 0}
  IN IF holes = {} THEN Append(ents, entry)
     ELSE [ents EXCEPT ![CHOOSE k \in holes : \A l \in holes : k <= l] = entry]

\* Mutant of Isdirempty: only the first entry is looked at.
Isdirempty_First(i) == node[i].ents = <<>> \/ node[i].ents[1][2] = 0

\* Only "." and ".." are left.
Isdirempty(i) == \A k \in DOMAIN node[i].ents : node[i].ents[k][2] = 0

Allocated == {i \in Inum : node[i].type # "none"}
Dirs == {i \in Inum : node[i].type = "dir"}

\* The entries that name inode i: the directory and the place.
NamesOf(i) ==
  {e \in UNION {{d} \X DOMAIN node[d].ents : d \in Dirs} : node[e[1]].ents[e[2]][2] = i}

\* Mutant of Held: lookups under way hold nothing.
Held_NoLookup(p) == kept \cup {cwd[q] : q \in Proc} \cup {dp[q] : q \in Proc \ {p}}

\* The inodes that references other than the locals of p hold.
Held(p) ==
  kept \cup {cwd[q] : q \in Proc} \cup {ip[q] : q \in Proc \ {p}} \cup {dp[q] : q \in Proc \ {p}}

\* iput on the inodes in put: those without links and references are freed.
Iput(p, nd, put) ==
  [i \in Inum |-> IF i \in put \ Held(p) /\ nd[i].nlink = 0 THEN NoNode ELSE nd[i]]

\* The tree becomes nd; the calls that are under way are marked.
Change(nd, returns) ==
  /\ node' = nd
  /\ stale' = (IF nd = node THEN stale ELSE {q \in Proc : pc[q] # "user"}) \ returns

-----------------------------------------------------------------------------
(* System calls.                                                           *)

\* namex looks up the parent for a check, and for the calls that change an entry.
Parent(p) == pc[p] = "check" \/ call[p].op \in {"create", "mkdir", "unlink"}

Names(p) == call[p].path.names
Start(p) == IF call[p].path.abs THEN ROOTINO ELSE cwd[p]

\* The checks of a call: sys_open makes one, create (for sys_open and sys_mkdir) one.
Checks(p, op) ==
  CASE UidOf[p] = ROOT -> <<>>
    [] op = "open" -> <<"r">>
    [] op = "create" -> <<"w", "w">>
    [] op = "mkdir" -> <<"w">>
    [] OTHER -> <<>>

\* namex is called, for check k of call c or for the call itself.
Lookup(p, c, k) ==
  /\ call' = [call EXCEPT ![p] = c]
  /\ chk' = [chk EXCEPT ![p] = k]
  /\ pc' = [pc EXCEPT ![p] = IF k <= Len(Checks(p, c.op)) THEN "check" ELSE "walk"]
  /\ ip' = [ip EXCEPT ![p] = IF c.path.abs THEN ROOTINO ELSE cwd[p]]
  /\ todo' = [todo EXCEPT ![p] = c.path.names]
  /\ stale' = stale \ {p} /\ astray' = astray \ {p}

Enter(p, c) ==
  /\ At(p, "user")
  /\ Lookup(p, c, 1)
  /\ UNCHANGED <<node, cwd, dp, off, kept, panicked, adrift>>

\* The call returns; put are the inodes it puts, of the tree nd.
Return(p, nd, put) ==
  /\ Change(Iput(p, nd, put), {p})
  /\ pc' = [pc EXCEPT ![p] = "user"]
  /\ call' = [call EXCEPT ![p] = NoCall] /\ chk' = [chk EXCEPT ![p] = 1]
  /\ ip' = [ip EXCEPT ![p] = 0] /\ todo' = [todo EXCEPT ![p] = <<>>]
  /\ dp' = [dp EXCEPT ![p] = 0] /\ off' = [off EXCEPT ![p] = 0]
  /\ astray' = astray \ {p}

Panic(s) ==
  /\ panicked' = s
  /\ UNCHANGED <<node, cwd, pc, call, chk, ip, todo, dp, off, kept, adrift, astray, stale>>

\* namex returns i, having put the inode it was at unless it returns it.
Found(p, i) ==
  /\ pc' = [pc EXCEPT ![p] = IF @ = "check" THEN "checked" ELSE "walked"]
  /\ ip' = [ip EXCEPT ![p] = i]
  /\ Change(Iput(p, node, {ip[p]} \ {i}), {})
  /\ UNCHANGED <<cwd, call, chk, todo, dp, off, kept, panicked, adrift, astray>>

\* Mutant of Stops: the parent is the directory before the last but one name.
Stops_Early(p) == Parent(p) /\ Len(todo[p]) <= 2

\* "Stop one level early."
Stops(p) == Parent(p) /\ Len(todo[p]) = 1

\* One turn of the loop of namex.
Namex(p) ==
  LET i == ip[p]
      next == Dirlookup(i, todo[p][1])
  IN
  /\ At(p, "check") \/ At(p, "walk")
  /\ IF todo[p] = <<>> THEN Found(p, IF Parent(p) THEN 0 ELSE i)
     ELSE IF node[i].type = "none" THEN Panic("ilock: no type")
     ELSE IF node[i].type # "dir" THEN Found(p, 0)
     ELSE IF Stops(p) THEN Found(p, i)
     ELSE IF next = 0 THEN Found(p, 0)
     ELSE /\ ip' = [ip EXCEPT ![p] = next]
          /\ todo' = [todo EXCEPT ![p] = Tail(@)]
          /\ Change(Iput(p, node, {i} \ {next}), {})
          /\ astray' = IF todo[p][1] = ".." /\ i # ROOTINO /\ NamesOf(i) = {}
                       THEN astray \cup {p} ELSE astray \ {p}
          /\ UNCHANGED <<cwd, pc, call, chk, dp, off, kept, panicked, adrift>>

\* Bit b of a mode for the owner, or for others.
Allows(p, i, b) ==
  \/ UidOf[p] = node[i].uid /\ <<"u", b>> \in node[i].mode
  \/ <<"o", b>> \in node[i].mode

\* validateRead and validateWrite look at the directory, whose reference they keep.
\* The name they compare with the exempt ones is the one that namex came to.
Validate(p) ==
  LET b == Checks(p, call[p].op)[chk[p]] IN
  /\ At(p, "checked")
  /\ kept' = kept \cup ({ip[p]} \ {0})
  /\ IF todo[p][1] \in Exempt THEN Lookup(p, call[p], chk[p] + 1) /\ UNCHANGED <<node, dp, off, panicked>>
     ELSE IF ip[p] = 0
     THEN panicked' = "ilock" /\ UNCHANGED <<node, pc, call, chk, ip, todo, dp, off, astray, stale>>
     ELSE IF Allows(p, ip[p], b) THEN Lookup(p, call[p], chk[p] + 1) /\ UNCHANGED <<node, dp, off, panicked>>
     ELSE Return(p, node, {}) /\ UNCHANGED panicked
  /\ UNCHANGED <<cwd, adrift>>

\* namex has returned to a call, which locks what it got.
Walked(p, ops) ==
  /\ At(p, "walked") /\ call[p].op \in ops
  /\ ip[p] # 0 => node[ip[p]].type # "none"

\* ilock finds that the inode is free.
NoType(p) ==
  /\ At(p, "walked") /\ ip[p] # 0 /\ node[ip[p]].type = "none"
  /\ Panic("ilock: no type")

\* Mutant of Linked: the parent does not count the ".." of a new directory.
Linked_NoDots(d, i, type, name) ==
  [node EXCEPT ![i] = [NoNode EXCEPT !.type = type, !.nlink = 1, !.mode = Mode0644, !.up = d],
               ![d].ents = Dirlink(@, <<name, i>>)]

\* A new inode i, which belongs to the superuser, in directory d.
Linked(d, i, type, name) ==
  [node EXCEPT ![i] = [NoNode EXCEPT !.type = type, !.nlink = 1, !.mode = Mode0644, !.up = d],
               ![d].ents = Dirlink(@, <<name, i>>),
               ![d].nlink = @ + (IF type = "dir" THEN 1 ELSE 0)]

\* create, for sys_open with O_CREATE and for sys_mkdir.
Create(p) ==
  LET d == ip[p]
      name == Last(Names(p))
      free == {i \in Inum : node[i].type = "none"}
      i == CHOOSE j \in free : \A k \in free : j <= k
      type == IF call[p].op = "mkdir" THEN "dir" ELSE "file"
  IN
  /\ Walked(p, {"create", "mkdir"})
  /\ IF d = 0 THEN Return(p, node, {}) /\ UNCHANGED <<cwd, kept, panicked, adrift>>
     ELSE IF Dirlookup(d, name) # 0 THEN Return(p, node, {d}) /\ UNCHANGED <<cwd, kept, panicked, adrift>>
     ELSE IF free = {} THEN Panic("ialloc: no inodes")
     ELSE /\ Return(p, Linked(d, i, type, name), {d})
          /\ adrift' = (adrift \ {i}) \cup (IF node[d].nlink = 0 \/ d \in adrift THEN {d, i} ELSE {})
          /\ UNCHANGED <<cwd, kept, panicked>>

\* The entry is overwritten with zeros, and the counts go down.
Unlinked(d, i, name) ==
  [node EXCEPT ![d].ents = [k \in DOMAIN @ |-> IF @[k][1] = name THEN Hole ELSE @[k]],
               ![d].nlink = @ - (IF node[i].type = "dir" THEN 1 ELSE 0),
               ![i].nlink = @ - 1]

\* sys_unlink; there is no check.
Unlink(p) ==
  LET d == ip[p]
      name == Last(Names(p))
      i == Dirlookup(d, name)
      ok == /\ name \notin {".", ".."} /\ i # 0
            /\ node[i].type = "dir" => Isdirempty(i)
  IN
  /\ Walked(p, {"unlink"})
  /\ IF d = 0 THEN Return(p, node, {})
     ELSE IF ~ok THEN Return(p, node, {d})
     ELSE Return(p, Unlinked(d, i, name), {d, i})
  /\ UNCHANGED <<cwd, kept, panicked, adrift>>

\* sys_chdir: when the check refuses, the reference is kept.
Chdir(p) ==
  LET i == ip[p]
      denied == UidOf[p] # ROOT /\ ~Allows(p, i, "x")
  IN
  /\ Walked(p, {"chdir"})
  /\ IF i = 0 THEN Return(p, node, {}) /\ UNCHANGED <<cwd, kept>>
     ELSE IF denied THEN Return(p, node, {}) /\ kept' = kept \cup {i} /\ UNCHANGED cwd
     ELSE IF node[i].type # "dir" THEN Return(p, node, {i}) /\ UNCHANGED <<cwd, kept>>
     ELSE /\ cwd' = [cwd EXCEPT ![p] = i]
          /\ LET others == {cwd[q] : q \in Proc \ {p}} \cup kept \cup
                           {ip[q] : q \in Proc} \cup {dp[q] : q \in Proc \ {p}}
             IN Return(p, [node EXCEPT ![cwd[p]] =
                             IF cwd[p] \notin others /\ @.nlink = 0 THEN NoNode ELSE @], {})
          /\ UNCHANGED kept
  /\ UNCHANGED <<panicked, adrift>>

\* sys_open for reading; the file is closed again.
Open(p) ==
  /\ Walked(p, {"open"})
  /\ Return(p, node, {ip[p]} \ {0})
  /\ UNCHANGED <<cwd, kept, panicked, adrift>>

\* sys_chmod, for the owner and the superuser; the reference is kept.
Chmod(p) ==
  LET i == ip[p] IN
  /\ Walked(p, {"chmod"})
  /\ IF i = 0 THEN Panic("null inode")
     ELSE /\ kept' = kept \cup {i}
          /\ Return(p, IF UidOf[p] \in {node[i].uid, ROOT} THEN [node EXCEPT ![i].mode = call[p].arg]
                       ELSE node, {})
          /\ UNCHANGED <<cwd, panicked, adrift>>

\* sys_updateDirOwner: the directory, and then a turn for each entry, which is looked
\* up by its name from the working directory of the caller ("" is that directory).
UpdateDirOwner(p) ==
  LET i == ip[p] IN
  /\ Walked(p, {"owner"})
  /\ IF i = 0 THEN Panic("null inode")
     ELSE /\ Change([node EXCEPT ![i].uid = call[p].arg], {})
          /\ kept' = kept \cup {i}
          /\ dp' = [dp EXCEPT ![p] = i] /\ off' = [off EXCEPT ![p] = 1]
          /\ pc' = [pc EXCEPT ![p] = "owner"]
          /\ UNCHANGED <<cwd, call, chk, ip, todo, panicked, adrift, astray>>

OwnerEntry(p) ==
  LET ents == node[dp[p]].ents
      name == ents[off[p]][1]
      i == IF name = "" THEN cwd[p] ELSE Dirlookup(cwd[p], name)
  IN
  /\ At(p, "owner")
  /\ off[p] <= Len(ents)
  /\ IF i = 0 THEN Panic("null inode")
     ELSE /\ Change([node EXCEPT ![i].uid = call[p].arg], {})
          /\ kept' = kept \cup {i}
          /\ off' = [off EXCEPT ![p] = @ + 1]
          /\ UNCHANGED <<cwd, pc, call, chk, ip, todo, dp, panicked, adrift,
                         astray>>

OwnerDone(p) ==
  /\ At(p, "owner")
  /\ off[p] > Len(node[dp[p]].ents)
  /\ Return(p, node, {})
  /\ UNCHANGED <<cwd, kept, panicked, adrift>>

\* A kernel that has panicked stays as it is.
Frozen == panicked # "no" /\ UNCHANGED vars

Next ==
  \/ \E c \in Call : Enter(c[1], c[2])
  \/ \E p \in Proc :
       \/ Namex(p) \/ Validate(p) \/ Create(p) \/ Unlink(p) \/ Chdir(p) \/ Open(p)
       \/ NoType(p) \/ Chmod(p) \/ UpdateDirOwner(p) \/ OwnerEntry(p) \/ OwnerDone(p)
  \/ Frozen

Spec == Init /\ [][Next]_vars

-----------------------------------------------------------------------------
(* Properties.                                                             *)

\* The link count of a directory is the number of its names and of the ".." of the
\* directories in it; create and unlink keep the count of two inodes in step.
LinkCounts ==
  \A i \in Dirs \ {ROOTINO} :
    node[i].nlink = Cardinality(NamesOf(i)) +
                    Cardinality({c \in Dirs : node[c].up = i /\ NamesOf(c) # {}})

\* The directories are a tree: an inode with links has a name, a directory just one,
\* in its "..".  Only what create has put into a directory that was removed before is
\* excepted, and that directory: create does not look at the link count.
IsTree ==
  \A i \in Allocated \ ({ROOTINO} \cup adrift) :
    /\ node[i].nlink > 0 => NamesOf(i) # {}
    /\ node[i].type = "dir" /\ node[i].nlink > 0 =>
         /\ Cardinality(NamesOf(i)) = 1
         /\ \A e \in NamesOf(i) : e[1] = node[i].up /\ node[e[1]].nlink > 0

\* What a lookup has come to is not freed before it is locked ("ilock: no type"), and
\* a working directory not at all, although nothing is locked between two names.
\* Only the ".." of a directory that has been removed may lead to a free inode.
LookupSafe ==
  /\ \A p \in Proc \ astray : pc[p] # "user" /\ ip[p] # 0 => ip[p] \in Allocated
  /\ \A p \in Proc : cwd[p] \in Allocated

\* What a path means: the inode, or 0.
RECURSIVE Resolve(_, _)
Resolve(i, names) ==
  IF names = <<>> \/ i = 0 THEN i
  ELSE IF node[i].type # "dir" THEN 0
  ELSE Resolve(Dirlookup(i, names[1]), Tail(names))

\* namex returns what the path means, or its parent directory, if the tree did not
\* change meanwhile.
WalkResolves ==
  \A p \in Proc \ stale : pc[p] \in {"checked", "walked"} =>
    LET parent == pc[p] = "checked" \/ call[p].op \in {"create", "mkdir", "unlink"}
        i == Resolve(Start(p), IF parent THEN Front(Names(p)) ELSE Names(p))
    IN ip[p] = IF parent /\ i # 0 /\ node[i].type # "dir" THEN 0 ELSE i
=============================================================================
