------------------------------ MODULE PathJail ------------------------------
(***************************************************************************)
(* The file operations of wings on the data directory of a container: SFTP *)
(* (sftp.go, jailFS), the file manager and the browser's upload and        *)
(* download (filemanager.go, panelbrowser.go), the archives (archive.go,   *)
(* fmzip.go).  The container owns the directory and may put any link there *)
(* between two requests; wings works on the host, where the links lead out.*)
(* A request is one step: the path is checked and then used by name.       *)
(*                                                                         *)
(* A path is the sequence of its names from the root of the host.  What a  *)
(* file holds, its mode and its times are left out.                        *)
(***************************************************************************)
EXTENDS Integers, Sequences, SequencesExt

CONSTANTS
  Names,    \* what a file may be called, and ".."
  Paths,    \* what clients ask for, which may hold ".."
  Targets,  \* what links may say: [abs, to]
  Outside,  \* the rest of the host: a tree that has no link into Root
  Depth,    \* bound: the length of a path
  Lookups   \* bound: the names the kernel looks up (it counts the links it follows)

Root == <<"r">>

Node == [kind : {"dir", "file", "link"}, abs : BOOLEAN, to : Seq(Names)]
Dir == [kind |-> "dir", abs |-> FALSE, to |-> <<>>]
File == [kind |-> "file", abs |-> FALSE, to |-> <<>>]
Link(target) == [kind |-> "link", abs |-> target.abs, to |-> target.to]

VARIABLES
  tree,     \* the file system: what is at each path
  strayed,  \* ghost: the paths outside of Root that a request read or changed
  astray    \* ghost: an archive was unpacked out of Root, over a link of the container's own

jailVars == <<tree, strayed, astray>>

\* The data directory when it is new.
fresh == [p \in DOMAIN Outside \cup {Root} |-> IF p = Root THEN Dir ELSE Outside[p]]

JailInit == tree = fresh /\ strayed = {} /\ astray = FALSE

-----------------------------------------------------------------------------
\* What a path that leads to nothing leads to: no name is "..".
Nowhere == <<"..">>

\* p is dir or below it.
under(dir, p) == Len(dir) <= Len(p) /\ \A i \in 1..Len(dir) : dir[i] = p[i]

there(t, p) == p = <<>> \/ p \in DOMAIN t
isDir(t, p) == p = <<>> \/ (p \in DOMAIN t /\ t[p].kind = "dir")

\* The kernel is at dir and has still to look up rest.
spot(dir, rest) == [dir |-> dir, rest |-> rest]

\* Where it goes on from a link at p.
wayOn(p, link) == spot(IF link.abs THEN <<>> ELSE Front(p), link.to)

\* It looks up one name.  The last one may be missing, and is followed when it
\* is a link if follow says so.
look(t, w, follow) ==
  IF w.rest = <<>> THEN w
  ELSE LET name == Head(w.rest)
           rest == Tail(w.rest)
           p == Append(w.dir, name)
       IN IF ~isDir(t, w.dir) THEN spot(Nowhere, <<>>)
          ELSE IF name = ".." THEN spot(IF w.dir = <<>> THEN <<>> ELSE Front(w.dir), rest)
          ELSE IF p \notin DOMAIN t THEN spot(IF rest = <<>> THEN p ELSE Nowhere, <<>>)
          ELSE IF t[p].kind = "link" /\ (follow \/ rest # <<>>)
          THEN spot(IF t[p].abs THEN <<>> ELSE w.dir, t[p].to \o rest)
          ELSE spot(p, rest)

\* Where it has been after every name.
trace(t, start, follow) ==
  LET upTo[n \in 0..Lookups] == IF n = 0 THEN start ELSE look(t, upTo[n - 1], follow)
  IN upTo

walk(t, p, follow) ==
  LET last == trace(t, spot(<<>>, p), follow)[Lookups]
  IN IF last.rest = <<>> THEN last.dir ELSE Nowhere

place(t, p) == walk(t, p, TRUE)
entry(t, p) == walk(t, p, FALSE)

ASSUME PathsAssumption ==
  /\ {"r", ".."} \subseteq Names /\ Lookups \in Nat
  /\ Paths \subseteq Seq(Names)
  /\ Targets \subseteq [abs : BOOLEAN, to : Seq(Names)]

\* The rest of the host is a tree beside Root, and no way on from a link of it
\* leads through Root.
ASSUME OutsideAssumption ==
  /\ DOMAIN Outside \subseteq Seq(Names) \ {<<>>, Nowhere}
  /\ \A p \in DOMAIN Outside :
       /\ Outside[p] \in Node /\ ~under(Root, p) /\ isDir(Outside, Front(p))
       /\ Outside[p].kind = "link" =>
            \A n \in 0..Lookups : ~under(Root, trace(fresh, wayOn(p, Outside[p]), TRUE)[n].dir)

exists(p) == there(tree, entry(tree, p))

\* filepath.Clean of "/" and the path.
clean(request) ==
  LET upTo[n \in 0..Len(request)] ==
        IF n = 0 THEN <<>>
        ELSE LET before == upTo[n - 1]
             IN IF request[n] # ".." THEN Append(before, request[n])
                ELSE IF before = <<>> THEN before ELSE Front(before)
  IN upTo[Len(request)]

full(request) == Root \o clean(request)

prefixes(p) == {SubSeq(p, 1, n) : n \in 0..Len(p)}
longest(ps) == CHOOSE p \in ps : \A q \in ps : Len(q) <= Len(p)

\* Mutant: Stat for Lstat, which takes a link to nothing for nothing.
nearest_Stat(p) == longest({q \in prefixes(p) : there(tree, place(tree, q))})

\* The nearest parent that exists.
nearest(p) == longest({q \in prefixes(p) : exists(q)})

\* resolve: EvalSymlinks of the path, or of the parent that exists, is in Root.
resolves(request, allowMissing) ==
  LET real == place(tree, IF allowMissing THEN nearest(full(request)) ELSE full(request))
  IN real \in DOMAIN tree /\ under(Root, real)

-----------------------------------------------------------------------------
\* What the calls make of the tree; a call that fails changes nothing.
put(t, p, node) == [q \in DOMAIN t \cup {p} |-> IF q = p THEN node ELSE t[q]]
drop(t, p) == [q \in {x \in DOMAIN t : ~under(p, x)} |-> t[q]]
isEmpty(t, p) == \A q \in DOMAIN t : ~(under(p, q) /\ p # q)

create(t, p) ==
  LET e == place(t, p) IN IF e = Nowhere \/ isDir(t, e) THEN t ELSE put(t, e, File)

\* mkdir and symlink make what is not there.
make(t, e, node) == IF e = Nowhere \/ there(t, e) THEN t ELSE put(t, e, node)
mkdir(t, p) == make(t, entry(t, p), Dir)
symlink(t, p, target) == make(t, entry(t, p), Link(target))

\* MkdirAll: one directory after the other, a link to one being one.
mkdirAll(t, p) ==
  LET upTo[n \in 0..Len(p)] ==
        LET dir == SubSeq(p, 1, n)
        IN IF n = 0 \/ isDir(t, place(t, dir)) THEN t ELSE mkdir(upTo[n - 1], dir)
  IN upTo[Len(p)]

removeAll(t, p) == LET e == entry(t, p) IN IF e \in DOMAIN t THEN drop(t, e) ELSE t

remove(t, p) == IF isEmpty(t, entry(t, p)) THEN removeAll(t, p) ELSE t

moved(t, s, d) ==
  LET rest == drop(drop(t, d), s)
      tail(q) == SubSeq(q, Len(d) + 1, Len(q))
      new == {d \o SubSeq(q, Len(s) + 1, Len(q)) : q \in {x \in DOMAIN t : under(s, x)}}
  IN [q \in DOMAIN rest \cup new |-> IF q \in new THEN t[s \o tail(q)] ELSE rest[q]]

rename(t, p, q) ==
  LET s == entry(t, p)
      d == entry(t, q)
  IN IF \/ s \notin DOMAIN t \/ d = Nowhere \/ under(s, d)
        \/ d \in DOMAIN t /\ (isDir(t, s) # isDir(t, d) \/ ~isEmpty(t, d))
     THEN t ELSE moved(t, s, d)

\* validateTarEntry and cleanZipName.
cleanName(name) == name # <<>> /\ \A i \in DOMAIN name : name[i] # ".."

\* A link of the kind that wings makes.
plainLink(link) == ~link.abs /\ cleanName(link.to)

\* What is outside of Root and was seen, or is not in both trees the same.
outsideOf(t, seen) ==
  {p \in seen \cup DOMAIN t \cup DOMAIN tree :
     /\ p # Nowhere /\ ~under(Root, p)
     /\ p \in seen \/ p \notin DOMAIN t \cap DOMAIN tree \/ t[p] # tree[p]}

\* A request ends: the tree is what its calls make of it, and seen is what it
\* read or changed without a trace in the tree.
ends(t, seen) ==
  /\ \A p \in DOMAIN t : Len(p) <= Depth
  /\ tree' = t
  /\ strayed' = strayed \cup outsideOf(t, seen)

served(t, seen) == ends(t, seen) /\ UNCHANGED astray

-----------------------------------------------------------------------------
\* Fileread, Filelist, Stat, fm/list, fm/read, fm/download and the download of
\* the browser.
Read(request) ==
  /\ resolves(request, FALSE)
  /\ served(tree, {place(tree, full(request))})

\* Lstat and Readlink, which look at the link itself.
LookAt(request) ==
  /\ resolves(request, FALSE)
  /\ served(tree, {entry(tree, full(request))})

\* fm/download-zip: zipDir walks the directory and follows no link.
FmZip(request) ==
  /\ resolves(request, FALSE)
  /\ isDir(tree, place(tree, full(request)))
  /\ served(tree, IF ~isDir(tree, entry(tree, full(request))) THEN {}
                  ELSE {p \in DOMAIN tree : /\ under(entry(tree, full(request)), p)
                                            /\ tree[p].kind = "file"})

\* Truncate, Setstat and fm/chmod: they follow links and create nothing.
Change(request, allowMissing) ==
  /\ resolves(request, allowMissing)
  /\ place(tree, full(request)) \in DOMAIN tree
  /\ served(tree, {place(tree, full(request))})

Filewrite(request) ==
  /\ resolves(request, TRUE)
  /\ served(create(tree, full(request)), {place(tree, full(request))})

\* fm/write, fm/upload and the files of a browser upload.
FmWrite(request) ==
  /\ resolves(request, TRUE)
  /\ LET t == mkdirAll(tree, Front(full(request)))
     IN served(create(t, full(request)), {place(t, full(request))})

Mkdir(request) ==
  /\ resolves(request, TRUE)
  /\ served(mkdir(tree, full(request)), {})

FmMkdir(request) ==
  /\ resolves(request, TRUE)
  /\ served(mkdirAll(tree, full(request)), {})

\* Rmdir and Remove of SFTP.
SftpRemove(request) ==
  /\ resolves(request, TRUE)
  /\ full(request) # Root
  /\ served(remove(tree, full(request)), {})

FmRm(request) ==
  /\ resolves(request, FALSE)
  /\ full(request) # Root
  /\ served(removeAll(tree, full(request)), {})

Rename(request, target) ==
  /\ resolves(request, TRUE) /\ resolves(target, TRUE)
  /\ served(rename(tree, full(request), full(target)), {})

FmMove(src, dst) ==
  /\ resolves(src, FALSE) /\ resolves(dst, TRUE)
  /\ full(src) # Root /\ full(dst) # Root
  /\ LET t == mkdirAll(tree, Front(full(dst)))
     IN served(rename(t, full(src), full(dst)), {})

\* Symlink: the target is relative, without ".." and resolves in Root as it is now.
Symlink(request, target) ==
  /\ plainLink(target)
  /\ resolves(request, TRUE) /\ full(request) # Root
  /\ resolves(Front(clean(request)) \o target.to, TRUE)
  /\ served(symlink(remove(tree, full(request)), full(request), target), {})

-----------------------------------------------------------------------------
\* The data directory is there and has only links of the kind that wings makes.
plain ==
  /\ isDir(tree, Root)
  /\ \A p \in DOMAIN tree : under(Root, p) /\ tree[p].kind = "link" => plainLink(tree[p])

\* An archive is unpacked by name, and no entry's path is resolved: the kernel
\* follows whatever link is below the destination.
unpacked(t, seen) ==
  /\ ends(t, seen)
  /\ astray' = (astray \/ (~plain /\ outsideOf(t, seen) # {}))

\* fm/upload-zip of an archive with one file.
Unzip(request, name) ==
  /\ resolves(request, TRUE)
  /\ LET t == mkdirAll(tree, full(request))
         target == full(request) \o name
         u == mkdirAll(t, Front(target))
     IN IF cleanName(name) THEN unpacked(create(u, target), {place(u, target)})
                           ELSE unpacked(t, {})

\* extractTarGz, which a restore runs on the data directory: a file, then a
\* link.  Links wait until the files are there, and one that is not relative or
\* holds ".." is passed over.
Untar(name, link, target) ==
  /\ cleanName(name) /\ cleanName(link)
  /\ LET t == create(mkdirAll(tree, Front(Root \o name)), Root \o name)
         u == mkdirAll(remove(t, Root \o link), Front(Root \o link))
     IN unpacked(IF plainLink(target) THEN symlink(u, Root \o link, target) ELSE t,
                 {place(t, Root \o name)})

\* The container replaces what is at a path of its own.
ContainerPuts(p, node) ==
  /\ Len(p) < Depth /\ isDir(tree, Front(Root \o p))
  /\ tree' = put(drop(tree, Root \o p), Root \o p, node)
  /\ UNCHANGED <<strayed, astray>>

Ask(request) ==
  \/ Read(request) \/ LookAt(request) \/ FmZip(request)
  \/ \E allowMissing \in BOOLEAN : Change(request, allowMissing)
  \/ Filewrite(request) \/ FmWrite(request) \/ Mkdir(request) \/ FmMkdir(request)
  \/ SftpRemove(request) \/ FmRm(request)
  \/ \E target \in Paths : Rename(request, target) \/ FmMove(request, target)
  \/ \E target \in Targets : Symlink(request, target)
  \/ \E name \in Paths : Unzip(request, name)
  \/ \E name \in Paths, target \in Targets : Untar(name, request, target)

\* Bound: what follows an unpacking that went astray is not looked at.
JailNext ==
  /\ ~astray
  /\ \/ \E request \in Paths : Ask(request)
     \/ \E p \in {q \in Paths : cleanName(q)},
           node \in {Dir, File} \cup {Link(target) : target \in Targets} : ContainerPuts(p, node)

JailSpec == JailInit /\ [][JailNext]_jailVars
-----------------------------------------------------------------------------
JailTypeOK ==
  /\ \A p \in DOMAIN tree : tree[p].kind \in {"dir", "file", "link"}
  /\ \A p \in DOMAIN tree : isDir(tree, Front(p))  \* what exists has a parent

\* No file operation of wings reads or changes a path outside of the data
\* directory, whatever links the container has put there before it and earlier
\* operations left, until an archive is unpacked over a link of the container's
\* own, whose entries follow it out: as long as the directory has only links of
\* the kind that wings makes, unpacking stays in it too, and when it leaves that
\* directory nothing is said of what follows.  The data directory itself is
\* inside: a request that reaches it through a link to a directory above may
\* remove it, since fm/rm and the others only compare the name they were asked
\* for with it.
ServedInside ==
  astray \/ /\ strayed = {}
            /\ \A p \in DOMAIN Outside : p \in DOMAIN tree /\ tree[p] = Outside[p]
=============================================================================
