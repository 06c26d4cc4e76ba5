------------------------------- MODULE Files -------------------------------
(***************************************************************************)
(* Open files: the system calls open, read, write and close (syscall.c),   *)
(* the path walk of fs/util.c, the virtual file system with the initial    *)
(* ramdisk and the devices (fs/vfs.c, fs/initrd.c, fs/dev.c), and each     *)
(* process's map from descriptors to nodes (process.c).                    *)
(*                                                                         *)
(* The map is a hash map whose data process_fork does not copy: parent and *)
(* child then have a Hash_Map each, with one and the same data, until one  *)
(* of them grows it and frees the old.  HashMap shows that a hash map is a *)
(* dictionary; here its data is one, with a capacity.  Every call is one   *)
(* step.                                                                   *)
(***************************************************************************)
EXTENDS Naturals, Sequences, FiniteSets, SequencesExt

CONSTANTS
  Image,       \* the ramdisk: a sequence of files [name, bytes]
  Paths,       \* bound: the paths that are opened, [absolute, names]
  Counts,      \* bound: the byte counts that are asked for
  InitialCap,  \* PROCESS_FILE_DESCRIPTORS_HASH_MAP_INITIAL_CAP
  MaxFd,       \* bound: the highest descriptor
  MaxPid       \* bound: the highest pid

ASSUME FilesAssumption ==
  /\ InitialCap \in Nat \ {0} /\ MaxFd \in Nat /\ MaxPid \in Nat \ {0}
  /\ Image \in Seq([name : STRING, bytes : Seq(STRING)])
  /\ Counts \subseteq Nat
  /\ Paths \subseteq [absolute : BOOLEAN, names : Seq(STRING) \ {<<>>}]

VARIABLES
  procs,    \* pid |-> [data, num, cap, next]: Hash_Map and fd_next
  pids,     \* current_pid - 1
  data,     \* the allocated data of hash maps: id |-> (descriptor |-> node)
  ret,      \* the last call and what it returned
  stopped,  \* why the kernel does not go on
  opened    \* for the properties: what each process may count on having open

vars == <<procs, pids, data, ret, stopped, opened>>

-----------------------------------------------------------------------------
\* Nodes are known by their file system and number; number 0 is its root.
Node(fs, inode) == [fs |-> fs, inode |-> inode]
Root == Node("vfs", 0)
Screen == Node("dev", 1)
Keyboard == Node("dev", 2)
NoNode == Node("none", 0)

\* vfs_root_lookup: the two root nodes.
vfs_root_lookup(name) ==
  IF name \in {"initrd", "dev"} THEN Node(name, 0) ELSE NoNode

dev_lookup(name) ==
  CASE name = "screen" -> Screen [] name = "keyboard" -> Keyboard
    [] OTHER -> NoNode

\* Mutant: one file too many is compared.
initrd_lookup_past(name) ==
  LET found == {i \in 1..Len(Image) : Image[i].name = name}
  IN  IF found = {} THEN Node("initrd", Len(Image) + 1)
      ELSE Node("initrd", CHOOSE i \in found : \A j \in found : i <= j)

\* initrd_lookup: the first file of that name.
initrd_lookup(name) ==
  LET found == {i \in 1..Len(Image) : Image[i].name = name}
  IN  IF found = {} THEN NoNode
      ELSE Node("initrd", CHOOSE i \in found : \A j \in found : i <= j)

\* vfs_lookup: only directories have a lookup function.
vfs_lookup(node, name) ==
  CASE node = Root              -> vfs_root_lookup(name)
    [] node = Node("dev", 0)    -> dev_lookup(name)
    [] node = Node("initrd", 0) -> initrd_lookup(name)
    [] OTHER                    -> NoNode

\* Where the first n names lead.
Walk(names) ==
  LET node[n \in 0..Len(names)] ==
        IF n = 0 THEN Root ELSE vfs_lookup(node[n - 1], names[n])
  IN  node

\* fs_util_get_node_by_path.  The names are what lies between the slashes: an
\* empty one in the middle is looked up like any other, the last one is not.
fs_util_get_node_by_path(path) ==
  LET above == Walk(path.names)[Len(path.names) - 1]
      last  == Last(path.names)
  IN  IF ~path.absolute THEN NoNode
      ELSE IF last = "" THEN above
      ELSE vfs_lookup(above, last)

\* The image: the bytes of the files, one file after the other.
FirstFiles[n \in Nat] == IF n = 0 THEN <<>> ELSE FirstFiles[n - 1] \o Image[n].bytes
ImageBytes == FirstFiles[Len(Image)]

\* initrd_init adds up the sizes to find where each file's bytes start.
initrd_files_data[inode \in Nat] ==
  IF inode < 2 THEN 0
  ELSE initrd_files_data[inode - 1] + Len(Image[inode - 1].bytes)

\* Mutant: the first file's length is left out of account.
FileStart_Early(inode) ==
  IF inode < 2 THEN 0 ELSE initrd_files_data[inode] - Len(Image[1].bytes)
FileStart(inode) == initrd_files_data[inode]
FileSize(node) ==
  IF node.fs = "initrd" /\ node.inode > 0 THEN Len(Image[node.inode].bytes) ELSE 0

\* initrd_read, at the offset the system call gives it: 0.
initrd_read(node, count) ==
  LET size == IF count < FileSize(node) THEN count ELSE FileSize(node)
      start == FileStart(node.inode)
  IN  SubSeq(ImageBytes, start + 1, start + size)

\* vfs_read: the bytes that are stored.  The keyboard gives one (see Keyboard);
\* directories and the screen have no read function.
vfs_read(node, count) ==
  CASE node = Keyboard                           -> <<"key">>
    [] node.fs = "initrd" /\ node.inode > 0      -> initrd_read(node, count)
    [] OTHER                                     -> <<>>

-----------------------------------------------------------------------------
\* The function f with y at x as well.
With(f, x, y) == [z \in DOMAIN f \cup {x} |-> IF z = x THEN y ELSE f[z]]

Error == [error |-> TRUE, bytes |-> <<>>]
Success(bytes) == [error |-> FALSE, bytes |-> bytes]
Return(op, pid, fd, answer) == [op |-> op, pid |-> pid, fd |-> fd, answer |-> answer]

Running == stopped = "no"
Fds(p) == data[procs[p].data]

\* The data that p's map leads to was freed by another process.
Dangling(p) == procs[p].data \notin DOMAIN data
\* Probing for fd does not end: fd is not there, nor is a free slot.
Endless(p, fd) ==
  ~Dangling(p) /\ fd \notin DOMAIN Fds(p) /\ Cardinality(DOMAIN Fds(p)) = procs[p].cap

Stop(p, op, fd) ==
  /\ stopped' = IF Dangling(p) THEN "freed data" ELSE "endless probe"
  /\ ret' = Return(op, p, fd, Error)
  /\ UNCHANGED <<procs, pids, data>>

Init ==
  /\ procs = [p \in {1} |->
                [data |-> 1, num |-> 0, cap |-> InitialCap, next |-> 0]]
  /\ pids = 1
  /\ data = [d \in {1} |-> [fd \in {} |-> Root]]
  /\ ret = Return("none", 1, 0, Error)
  /\ stopped = "no"
  /\ opened = [p \in {1} |-> [fd \in {} |-> Root]]

\* For the properties: the tree of files, and what a path stands for.  Slashes
\* at the end do not count, an empty name elsewhere stands for nothing.
Tree ==
  {<<<<>>, Root>>, <<<<"initrd">>, Node("initrd", 0)>>, <<<<"dev">>, Node("dev", 0)>>,
   <<<<"dev", "screen">>, Screen>>, <<<<"dev", "keyboard">>, Keyboard>>}
    \cup {<<<<"initrd", Image[i].name>>, Node("initrd", i)>> : i \in
            {i \in 1..Len(Image) : \A j \in 1..i - 1 : Image[j].name # Image[i].name}}
Found(path) ==
  LET names == IF Last(path.names) = "" THEN Front(path.names) ELSE path.names
  IN  {entry \in Tree : path.absolute /\ entry[1] = names}
Named(path) ==
  IF Found(path) = {} THEN NoNode ELSE (CHOOSE entry \in Found(path) : TRUE)[2]

\* What processes may count on after p has opened node as fd: those that share
\* p's data no more, nor p itself if fd was in use because fork, from which all
\* but the first process come, does not set fd_next.
Relied(p, fd, node) ==
  LET sharing == {q \in DOMAIN opened \ {p} : procs[q].data = procs[p].data}
      used    == {q \in DOMAIN opened \ {1} : q = p /\ fd \in DOMAIN opened[q]}
  IN  [q \in DOMAIN opened \ (sharing \cup used) |->
         IF q = p /\ fd \notin DOMAIN opened[p]
         THEN With(opened[p], fd, node) ELSE opened[q]]

NewId == CHOOSE d \in 1..(Cardinality(DOMAIN data) + MaxPid + 1) :
           d \notin DOMAIN data \cup {procs[p].data : p \in DOMAIN procs}

\* Mutant: the grown map keeps the old number of slots.
Grown_SameCap(p, entries) ==
  [procs[p] EXCEPT !.data = NewId, !.num = Cardinality(DOMAIN entries)]

\* hash_map_grow, as process p's map sees it.
Grown(p, entries) ==
  [procs[p] EXCEPT !.data = NewId, !.num = Cardinality(DOMAIN entries),
                   !.cap = 2 * @]

\* process_add_fd_to_active_process: hash_map_put, and the growth after it.
AddFd(p, fd, node) ==
  LET entries == With(Fds(p), fd, node)
      num     == procs[p].num + (IF fd \in DOMAIN Fds(p) THEN 0 ELSE 1)
      hm      == IF 2 * num > procs[p].cap THEN Grown(p, entries)
                 ELSE [procs[p] EXCEPT !.num = num]
  IN  /\ data' = [d \in (DOMAIN data \ {procs[p].data}) \cup {hm.data} |->
                    IF d = hm.data THEN entries ELSE data[d]]
      /\ procs' = [procs EXCEPT ![p] = [hm EXCEPT !.next = fd + 1]]

Open(p, path) ==
  LET node == fs_util_get_node_by_path(path)
      fd   == procs[p].next
  IN  /\ Running
      /\ fd <= MaxFd
      /\ CASE node = NoNode ->
                /\ ret' = Return("open", p, 0, Error)
                /\ UNCHANGED <<procs, pids, data, stopped>>
           [] node # NoNode /\ (Dangling(p) \/ Endless(p, fd)) ->
                Stop(p, "open", fd)
           [] OTHER ->
                /\ AddFd(p, fd, node)
                /\ ret' = Return("open", p, fd, Success(<<>>))
                /\ UNCHANGED <<pids, stopped>>
      /\ opened' = IF Named(path) = NoNode \/ stopped' # "no" THEN opened
                   ELSE Relied(p, fd, Named(path))

\* read, write and close look the descriptor up first; answer is what they
\* return when it is there.
Look(p, op, fd, answer) ==
  /\ Running
  /\ IF Dangling(p) \/ Endless(p, fd) THEN Stop(p, op, fd) /\ UNCHANGED opened
     ELSE /\ ret' = Return(op, p, fd, IF fd \in DOMAIN Fds(p)
                                      THEN answer ELSE Error)
          /\ UNCHANGED <<procs, pids, data, stopped, opened>>

Read(p, fd, count) ==
  Look(p, "read", fd, Success(vfs_read(Fds(p)[fd], count)))

\* Only the screen can be written to; the answer is 0 bytes all the same.
Write(p, fd) == Look(p, "write", fd, Success(<<>>))

\* vfs_close has nothing to call, and the descriptor stays.
Close(p, fd) == Look(p, "close", fd, Success(<<>>))

\* Mutant: the child's map is a new one with nothing in it.
ForkFds_Empty(p, child, next) ==
  /\ procs' = [q \in DOMAIN procs \cup {child} |->
                 IF q = child THEN [data |-> NewId, num |-> 0, cap |-> InitialCap,
                                    next |-> next] ELSE procs[q]]
  /\ data' = With(data, NewId, [fd \in {} |-> Root])

\* process_fork: the Hash_Map is copied, not what it leads to; fd_next holds
\* what was in that place of the heap.
ForkFds(p, child, next) ==
  /\ procs' = [q \in DOMAIN procs \cup {child} |->
                 IF q = child THEN [procs[p] EXCEPT !.next = next] ELSE procs[q]]
  /\ UNCHANGED data

Fork(p, next) ==
  /\ Running
  /\ pids < MaxPid
  /\ pids' = pids + 1
  /\ ForkFds(p, pids', next)
  /\ opened' = IF p \in DOMAIN opened THEN With(opened, pids', opened[p]) ELSE opened
  /\ ret' = Return("fork", p, 0, Success(<<>>))
  /\ UNCHANGED stopped

\* process_exit frees the Process, never the data of its map.
Exit(p) ==
  /\ Running
  /\ procs' = [q \in DOMAIN procs \ {p} |-> procs[q]]
  /\ opened' = [q \in DOMAIN opened \ {p} |-> opened[q]]
  /\ stopped' = IF DOMAIN procs = {p} THEN "halted" ELSE "no"
  /\ ret' = Return("exit", p, 0, Success(<<>>))
  /\ UNCHANGED <<pids, data>>

Next ==
  \/ \E p \in DOMAIN procs, path \in Paths : Open(p, path)
  \/ \E p \in DOMAIN procs, fd \in 0..MaxFd, count \in Counts : Read(p, fd, count)
  \/ \E p \in DOMAIN procs, fd \in 0..MaxFd : Write(p, fd)
  \/ \E p \in DOMAIN procs, fd \in 0..MaxFd : Close(p, fd)
  \/ \E p \in DOMAIN procs, next \in 0..MaxFd : Fork(p, next)
  \/ \E p \in DOMAIN procs : Exit(p)

Spec == Init /\ [][Next]_vars

-----------------------------------------------------------------------------
Nodes == {Root, Screen, Keyboard} \cup {Node(fs, 0) : fs \in {"initrd", "dev"}}
           \cup {Node("initrd", i) : i \in 1..Len(Image)}

\* Every descriptor leads to a node that exists.
TypeOK ==
  /\ \A d \in DOMAIN data :
       /\ DOMAIN data[d] \subseteq 0..MaxFd
       /\ \A fd \in DOMAIN data[d] : data[d][fd] \in Nodes
  /\ \A p \in DOMAIN procs :
       /\ procs[p].data \in Nat /\ procs[p].num \in Nat
       /\ procs[p].cap \in Nat \ {0} /\ procs[p].next \in 0..MaxFd + 1
  /\ DOMAIN opened \subseteq DOMAIN procs /\ DOMAIN procs \subseteq 1..pids
  /\ stopped \in {"no", "halted", "freed data", "endless probe"}

\* A process has open exactly the files whose paths it, or its parent before
\* the fork, opened, each under a descriptor of its own (the shell's child
\* writes to the shell's stdout, app/shell.li): through growth of the map and
\* through fork, until a process it shares the map's data with opens another.
FdsKept ==
  \A p \in DOMAIN opened : Running => ~Dangling(p) /\ Fds(p) = opened[p]

\* No call of such a process runs into freed memory or probes for ever.
NoWildCall ==
  stopped \in {"freed data", "endless probe"} => ret.pid \notin DOMAIN opened

\* What a read returns is the beginning of the file that the descriptor was
\* opened for, no more than was asked for; an unknown descriptor is refused.
ReadsFile ==
  [][\A p \in DOMAIN opened, fd \in 0..MaxFd, count \in Counts :
       Read(p, fd, count) =>
         IF fd \notin DOMAIN opened[p] THEN ret'.answer = Error
         ELSE LET node == opened[p][fd]
              IN  node.fs = "initrd" /\ node.inode > 0 =>
                    /\ IsPrefix(ret'.answer.bytes, Image[node.inode].bytes)
                    /\ Len(ret'.answer.bytes) <= count
                    /\ Len(ret'.answer.bytes) \in {count, Len(Image[node.inode].bytes)}]_vars
=============================================================================
