-------------------------------- MODULE Vfs --------------------------------
(***************************************************************************)
(* The file descriptors of a VM: wasi::vfs::VFS and the WASI calls of      *)
(* wasi/preview1.rs that open, read, seek and close them.                  *)
(*                                                                         *)
(* A file is either a result handed to the guest by gl_call (its bytes are *)
(* charged to the VM's limiter and released on close) or a file of the     *)
(* runner's tree (charged when it was mapped).  A file's contents are      *)
(* known by their length.  Each number of a descriptor costs FD_ALLOCATION *)
(* once; a number given back is reused at no charge.  The limiter's budget *)
(* is shared: other users take from it and give back at any time.          *)
(***************************************************************************)
EXTENDS Integers, SequencesExt

CONSTANTS
    MaxFds,        \* top_limits::MAX_FDS
    FdAllocation,  \* memory_limiter_consts::FD_ALLOCATION
    Memory,        \* the budget of the limiter
    Lengths,       \* lengths of results and of stdin
    Tree,          \* FilesTrie: a path's file length, or Dir
    Paths,         \* paths a guest opens, as sequences of names
    Offsets        \* offsets a guest reads at or seeks to

Dir == -1

ASSUME MemoryAssumption ==
    /\ MaxFds \in Nat /\ FdAllocation \in Nat /\ Memory \in Nat
    /\ Lengths \subseteq Nat /\ Offsets \subseteq Int

ASSUME TreeAssumption ==
    /\ DOMAIN Tree \subseteq Seq(STRING) /\ Tree \in [DOMAIN Tree -> Nat \cup {Dir}]
    /\ <<>> \in DOMAIN Tree /\ Tree[<<>>] = Dir
    /\ \A path \in DOMAIN Tree \ {<<>>} :
          Front(path) \in DOMAIN Tree /\ Tree[Front(path)] = Dir

VARIABLES
    fds,      \* VFS.fds: open descriptors
    free,     \* VFS.free_descriptors, a stack
    next,     \* VFS.next_free_descriptor: the largest number ever given
    mem,      \* what the limiter has left
    others,   \* what the limiter's other users hold
    status    \* running; trapped: the VM is over; panicked: the process is

vars == <<fds, free, next, mem, others, status>>

(* A descriptor; node (history) is where the walk that opened it ended.    *)
File(len, owned) ==
    [kind |-> "file", len |-> len, pos |-> 0, owned |-> owned, path |-> <<>>, node |-> <<>>]
Directory(path, node) ==
    [kind |-> "dir", len |-> 0, pos |-> 0, owned |-> FALSE, path |-> path, node |-> node]
Std == [kind |-> "std", len |-> 0, pos |-> 0, owned |-> FALSE, path |-> <<>>, node |-> <<>>]

(* VFS::new, with enough memory for stdin.                                 *)
Init ==
    /\ \E n \in Lengths :
        /\ n <= Memory
        /\ mem = Memory - n
        /\ fds = [fd \in 0 .. 3 |->
                    IF fd = 0 THEN File(n, TRUE) ELSE IF fd = 3 THEN Directory(<<>>, <<>>) ELSE Std]
    /\ free = <<>>
    /\ next = 3
    /\ others = 0
    /\ status = "running"

Running == status = "running"
Stop(s) == status' = s /\ UNCHANGED <<fds, free, next, mem>>

Open(fd, desc) ==
    fds' = [f \in DOMAIN fds \cup {fd} |-> IF f = fd THEN desc ELSE fds[f]]

-----------------------------------------------------------------------------
(* alloc_fd, with m units of memory left.                                  *)

AllocFails(m) ==
    \/ Cardinality(DOMAIN fds) >= MaxFds
    \/ free = <<>> /\ m < FdAllocation

(* Mutant of AllocFd: the number stays on the stack.                       *)
AllocFd_Keeps(m, fd) ==
    /\ ~AllocFails(m)
    /\ IF free # <<>>
       THEN fd = Last(free) /\ mem' = m /\ UNCHANGED <<next, free>>
       ELSE fd = next + 1 /\ next' = fd /\ mem' = m - FdAllocation /\ UNCHANGED free
AllocFd(m, fd) ==
    /\ ~AllocFails(m)
    /\ IF free # <<>>
       THEN fd = Last(free) /\ free' = Front(free) /\ mem' = m /\ UNCHANGED next
       ELSE fd = next + 1 /\ next' = fd /\ mem' = m - FdAllocation /\ UNCHANGED free

(* Mutant of PlaceContent: nothing is released when there is no number.    *)
PlaceContent_KeepsCharge ==
    /\ Running
    /\ \E n \in Lengths :
        \/ mem < n /\ Stop("trapped")
        \/ /\ mem >= n /\ AllocFails(mem - n)
           /\ mem' = mem - n /\ status' = "trapped" /\ UNCHANGED <<fds, free, next>>
        \/ /\ mem >= n
           /\ \E fd \in 0 .. next + 1 : AllocFd(mem - n, fd) /\ Open(fd, File(n, TRUE))
           /\ UNCHANGED status
    /\ UNCHANGED others

(* place_content: the bytes are charged first, and released again when no  *)
(* number can be had.  Its failures are traps.                             *)
PlaceContent ==
    /\ Running
    /\ \E n \in Lengths :
        \/ mem < n /\ Stop("trapped")
        \/ mem >= n /\ AllocFails(mem - n) /\ Stop("trapped")
        \/ /\ mem >= n
           /\ \E fd \in 0 .. next + 1 : AllocFd(mem - n, fd) /\ Open(fd, File(n, TRUE))
           /\ UNCHANGED status
    /\ UNCHANGED others

(* fd_close, pop_fd: any number may be closed, the preopened ones too.     *)
FdClose ==
    /\ Running
    /\ \E fd \in DOMAIN fds :
        /\ fds' = [f \in DOMAIN fds \ {fd} |-> fds[f]]
        /\ mem' = mem + (IF fds[fd].owned THEN fds[fd].len ELSE 0)
        /\ free' = Append(free, fd)
    /\ UNCHANGED <<next, others, status>>

-----------------------------------------------------------------------------
(* path_open.                                                              *)

(* The node dir_fd_follow_trie and dir_fd_get_trie reach from directory    *)
(* dirPath: a name that is not a child of the node before is an error, and *)
(* so is "..": after following the parent the code still looks for a child *)
(* of that name.  Tree is prefix-closed, so the end tells of the way.      *)
NodeAt(dirPath, names) == dirPath \o SelectSeq(names, LAMBDA name : name # ".")

(* The path noted on the way: that of the directory to begin with, then    *)
(* every name from the root, those of the directory's path included.       *)
NotedPath(dirPath, names) == dirPath \o NodeAt(dirPath, names)

(* A number is taken first.  An error after that leaves it neither open    *)
(* nor free: `return` and `?` leave the function, not the block whose      *)
(* inspect_err would give the number back.                                 *)
PathOpen ==
    /\ Running
    /\ \/ AllocFails(mem) /\ Stop("trapped")
       \/ /\ \E fd \in 0 .. next + 1, dirfd \in DOMAIN fds, names \in Paths :
               LET dirPath == fds[dirfd].path
                   node == NodeAt(dirPath, names)
               IN  /\ AllocFd(mem, fd)
                   /\ IF fds[dirfd].kind # "dir" \/ node \notin DOMAIN Tree THEN UNCHANGED fds
                      ELSE IF Tree[node] = Dir THEN Open(fd, Directory(NotedPath(dirPath, names), node))
                      ELSE Open(fd, File(Tree[node], FALSE))
          /\ UNCHANGED status
    /\ UNCHANGED others

-----------------------------------------------------------------------------
(* Reading and seeking.                                                    *)

IsFile(fd) == fd \in DOMAIN fds /\ fds[fd].kind = "file"
MovePos(fd, pos) ==
    /\ fds' = [fds EXCEPT ![fd].pos = pos]
    /\ UNCHANGED <<free, next, mem, others, status>>

Lower(a, b) == IF a <= b THEN a ELSE b

(* Clamped into the file, as fd_seek does with Cur and Set; its mutant has *)
(* no upper bound.                                                         *)
Clamp_NoEnd(n, len) == IF n < 0 THEN 0 ELSE n
Clamp(n, len) == IF n < 0 THEN 0 ELSE Lower(n, len)

FdRead ==
    /\ Running
    /\ \E fd \in DOMAIN fds, n \in Offsets :
        /\ IsFile(fd) /\ n >= 0
        /\ MovePos(fd, fds[fd].pos + Lower(n, fds[fd].len - fds[fd].pos))

FdSeek ==
    /\ Running
    /\ \E fd \in DOMAIN fds, offset \in Offsets :
        /\ IsFile(fd)
        /\ \/ MovePos(fd, Clamp(fds[fd].pos + offset, fds[fd].len))
           \/ MovePos(fd, Clamp(offset, fds[fd].len))

(* fd_pread changes nothing, but an offset past the end is the start of a  *)
(* slice that is out of bounds, although no byte of it is asked for.       *)
FdPreadPastEnd ==
    /\ Running
    /\ \E fd \in DOMAIN fds, offset \in Offsets : IsFile(fd) /\ offset > fds[fd].len
    /\ Stop("panicked")
    /\ UNCHANGED others

(* Other users of the limiter.                                             *)
Neighbours ==
    /\ Running
    /\ \E n \in 0 .. mem + others : others' = n /\ mem' = mem + others - n
    /\ UNCHANGED <<fds, free, next, status>>

Over == ~Running /\ UNCHANGED vars

Next ==
    \/ PlaceContent \/ FdClose \/ PathOpen \/ FdRead \/ FdSeek \/ FdPreadPastEnd
    \/ Neighbours \/ Over

Spec == Init /\ [][Next]_vars

-----------------------------------------------------------------------------
(* Properties.                                                             *)

Descriptors ==
    [kind : {"file", "dir", "std"}, len : Nat, pos : Nat, owned : BOOLEAN,
     path : Seq(STRING), node : Seq(STRING)]

(* Type invariant: in particular at most MAX_FDS descriptors are open (the *)
(* four of VFS::new are there from the start).                             *)
TypeOK ==
    /\ next \in Nat \ 0 .. 2
    /\ DOMAIN fds \subseteq 0 .. next
    /\ fds \in [DOMAIN fds -> Descriptors]
    /\ Cardinality(DOMAIN fds) <= IF MaxFds < 4 THEN 4 ELSE MaxFds
    /\ free \in Seq(0 .. next)
    /\ mem \in Nat /\ others \in Nat
    /\ status \in {"running", "trapped", "panicked"}

(* A number on the stack of free descriptors is not open and is there      *)
(* once, whatever was closed and reopened in which order: alloc_fd "gives  *)
(* vacant fd".                                                             *)
FreeIsVacant ==
    /\ \A i \in 1 .. Len(free) : free[i] \notin DOMAIN fds
    /\ \A i, j \in 1 .. Len(free) : free[i] = free[j] => i = j

(* An open descriptor is never replaced under its number: as long as it is *)
(* open, only its position changes.                                        *)
OpenFdsKeepContents ==
    [][\A fd \in DOMAIN fds \cap DOMAIN fds' :
          [fds'[fd] EXCEPT !.pos = 0] = [fds[fd] EXCEPT !.pos = 0]]_vars

(* The limiter is charged for exactly the bytes of the open results and    *)
(* one FD_ALLOCATION for each number ever given, after failures too.       *)
Charges == [fd \in DOMAIN fds |-> IF fds[fd].owned THEN fds[fd].len ELSE 0]
MemoryAccounted ==
    mem + others + (next - 3) * FdAllocation + SumFunctionOnSet(Charges, DOMAIN fds) = Memory

(* A file's position is within the file, so that what is left to read      *)
(* (contents.len() - pos, unsigned) never wraps.                           *)
PositionInFile == \A fd \in DOMAIN fds : fds[fd].pos \in 0 .. fds[fd].len

(* After any sequence of opens, closes, reads and seeks, failed ones       *)
(* included: at most MAX_FDS descriptors are open, the numbers to reuse    *)
(* are vacant, and positions are in their files.                           *)
DescriptorsSound == TypeOK /\ FreeIsVacant /\ PositionInFile

(* The next three are what the code says of itself and does not do: each   *)
(* is violated when it is added to Vfs.cfg.                                *)

(* path_open means to give the number back when it fails (inspect_err with *)
(* free_fd): each number given so far is open or free.                     *)
NoFdLost == 0 .. next = DOMAIN fds \cup ToSet(free)

(* path_open "is similar to openat in POSIX": a directory descriptor       *)
(* stands for the directory that was opened.                               *)
DirFdNamesItsDirectory ==
    \A fd \in DOMAIN fds : fds[fd].kind = "dir" => fds[fd].path = fds[fd].node

(* fd_pread "is similar to preadv in POSIX": past the end nothing is left  *)
(* to read (saturating_sub), and that is all.                              *)
PreadPastEndIsEmpty == status # "panicked"

=============================================================================
