----------------------------- MODULE VfsProofs -----------------------------
(***************************************************************************)
(* Proofs about Vfs, for every limit, every budget and every tree.         *)
(***************************************************************************)
EXTENDS Vfs, SumTheorems

(* FreeIsVacant rests on the numbers given so far being 0 .. next, which   *)
(* TypeOK says of open and free ones alike.                                *)
IInv == TypeOK /\ FreeIsVacant /\ PositionInFile

LEMMA FiniteFds ==
    ASSUME next \in Nat, DOMAIN fds \subseteq 0 .. next
    PROVE  IsFiniteSet(DOMAIN fds)
<1>1. IsFiniteSet(0 .. next)
  <2>1. 0 \in Int /\ next \in Int
    OBVIOUS
  <2> QED BY ONLY <2>1, FS_Interval
<1> QED BY <1>1, FS_Subset

(* alloc_fd gives a number that is not open and leaves the stack without.  *)
LEMMA AllocGivesVacant ==
    ASSUME IInv, NEW m \in Nat, NEW fd, AllocFd(m, fd)
    PROVE  /\ fd \in 0 .. next' /\ fd \notin DOMAIN fds
           /\ next' \in Nat /\ next <= next' /\ mem' \in Nat
           /\ free' \in Seq(0 .. next')
           /\ \A i \in 1 .. Len(free') : free'[i] \notin DOMAIN fds \cup {fd}
           /\ \A i, j \in 1 .. Len(free') : free'[i] = free'[j] => i = j
           /\ Cardinality(DOMAIN fds) < MaxFds
<1> USE MemoryAssumption
<1>0. /\ next \in Nat \ 0 .. 2 /\ DOMAIN fds \subseteq 0 .. next /\ free \in Seq(0 .. next)
      /\ \A i \in 1 .. Len(free) : free[i] \notin DOMAIN fds
      /\ \A i, j \in 1 .. Len(free) : free[i] = free[j] => i = j
  BY DEF IInv, TypeOK, FreeIsVacant
<1>1. Cardinality(DOMAIN fds) < MaxFds
  <2>1. IsFiniteSet(DOMAIN fds)
    BY <1>0, FiniteFds
  <2> QED BY <2>1, FS_CardinalityType DEF AllocFd, AllocFails
<1>2. CASE free # <<>>
  <2>1. fd = free[Len(free)] /\ free' = Front(free) /\ mem' = m /\ next' = next
    BY <1>2 DEF AllocFd, Last
  <2>2. /\ Len(free) \in Nat /\ Len(free) >= 1 /\ Len(free') = Len(free) - 1
        /\ \A i \in 1 .. Len(free) - 1 : free'[i] = free[i]
        /\ free' \in Seq(0 .. next)
    <3>1. Len(free) \in Nat /\ Len(free) >= 1
      BY <1>0, <1>2, EmptySeq
    <3>2. free' = SubSeq(free, 1, Len(free) - 1)
      BY <2>1 DEF Front
    <3>3. \A i \in 1 .. Len(free) - 1 : free[i] \in 0 .. next
      BY <1>0, <3>1
    <3> DEFINE s == SubSeq(free, 1, Len(free) - 1)
    <3>4. Len(free) - 1 \in Int /\ 1 \in Int
      BY <3>1
    <3>5. /\ s \in Seq(0 .. next)
          /\ Len(s) = IF 1 <= Len(free) - 1 THEN Len(free) - 1 - 1 + 1 ELSE 0
          /\ \A i \in 1 .. Len(free) - 1 - 1 + 1 : s[i] = free[1 + i - 1]
      BY ONLY <3>3, <3>4, SubSeqProperties
    <3> HIDE DEF s
    <3>6. Len(s) = Len(free) - 1
      <4> DEFINE n == Len(free)
      <4>1. n \in Nat /\ n >= 1 /\ Len(s) = IF 1 <= n - 1 THEN n - 1 - 1 + 1 ELSE 0
        BY ONLY <3>1, <3>5
      <4> HIDE DEF n
      <4>2. Len(s) = n - 1
        BY ONLY <4>1
      <4> QED BY <4>2 DEF n
    <3>7. \A i \in 1 .. Len(free) - 1 : s[i] = free[i]
      <4> TAKE i \in 1 .. Len(free) - 1
      <4>1. i \in 1 .. Len(free) - 1 - 1 + 1 /\ 1 + i - 1 = i
        BY <3>1
      <4> QED BY <3>5, <4>1
    <3>8. free' = s
      BY <3>2 DEF s
    <3> QED BY <3>1, <3>5, <3>6, <3>7, <3>8
  <2> DEFINE n == Len(free)
  <2>3. fd = free[n] /\ n \in Nat /\ n \in 1 .. n /\ fd \in 0 .. next
    BY <1>0, <2>1, <2>2
  <2>4. \A i \in 1 .. n - 1 : i \in 1 .. n /\ i # n /\ free'[i] = free[i]
    BY <2>2, <2>3
  <2>5. Len(free') = n - 1 /\ free' \in Seq(0 .. next)
    BY <2>2
  <2> HIDE DEF n
  <2>6. fd \notin DOMAIN fds /\ \A i \in 1 .. Len(free') : free'[i] \notin DOMAIN fds \cup {fd}
    <3>1. \A i \in 1 .. n : free[i] \notin DOMAIN fds
      BY <1>0 DEF n
    <3>2. \A i, j \in 1 .. n : free[i] = free[j] => i = j
      BY <1>0 DEF n
    <3> QED BY <2>3, <2>4, <2>5, <3>1, <3>2
  <2>7. \A i, j \in 1 .. Len(free') : free'[i] = free'[j] => i = j
    <3>1. \A i, j \in 1 .. n : free[i] = free[j] => i = j
      BY <1>0 DEF n
    <3> QED BY <2>4, <2>5, <3>1
  <2>8. next' = next /\ next \in Nat /\ mem' \in Nat
    BY <1>0, <2>1
  <2> QED BY <1>1, <2>3, <2>5, <2>6, <2>7, <2>8
<1>3. CASE free = <<>>
  <2>1. fd = next + 1 /\ next' = fd /\ mem' = m - FdAllocation /\ free' = free
    BY <1>3 DEF AllocFd
  <2>2. mem' \in Nat
    BY <1>3, <2>1 DEF AllocFd, AllocFails
  <2> QED BY <1>0, <1>1, <1>3, <2>1, <2>2
<1> QED BY <1>2, <1>3

(* Opening a descriptor at such a number preserves the invariant.          *)
LEMMA OpenPreserves ==
    ASSUME IInv, NEW m \in Nat, NEW fd, AllocFd(m, fd),
           NEW desc \in Descriptors, desc.pos \in 0 .. desc.len, Open(fd, desc),
           UNCHANGED <<others, status>>
    PROVE  IInv'
<1>1. /\ fd \in 0 .. next' /\ fd \notin DOMAIN fds
      /\ next' \in Nat /\ next <= next' /\ mem' \in Nat
      /\ free' \in Seq(0 .. next')
      /\ \A i \in 1 .. Len(free') : free'[i] \notin DOMAIN fds \cup {fd}
      /\ \A i, j \in 1 .. Len(free') : free'[i] = free'[j] => i = j
      /\ Cardinality(DOMAIN fds) < MaxFds
  BY AllocGivesVacant
<1>2. /\ next \in Nat \ 0 .. 2 /\ DOMAIN fds \subseteq 0 .. next
      /\ fds \in [DOMAIN fds -> Descriptors] /\ others \in Nat
      /\ status \in {"running", "trapped", "panicked"}
      /\ \A f \in DOMAIN fds : fds[f].pos \in 0 .. fds[f].len
  BY DEF IInv, TypeOK, PositionInFile
<1>3. /\ DOMAIN fds' = DOMAIN fds \cup {fd}
      /\ fds'[fd] = desc
      /\ \A f \in DOMAIN fds : fds'[f] = fds[f]
      /\ fds' \in [DOMAIN fds' -> Descriptors]
  BY <1>1, <1>2 DEF Open
<1>4. Cardinality(DOMAIN fds') = Cardinality(DOMAIN fds) + 1 /\ Cardinality(DOMAIN fds) \in Nat
  <2>1. IsFiniteSet(DOMAIN fds)
    BY <1>2, FiniteFds
  <2> QED BY <1>1, <1>3, <2>1, FS_AddElement, FS_CardinalityType
<1>5. TypeOK'
  <2>1. next' \in Nat \ 0 .. 2 /\ DOMAIN fds' \subseteq 0 .. next'
    BY <1>1, <1>2, <1>3
  <2>2. Cardinality(DOMAIN fds') <= IF MaxFds < 4 THEN 4 ELSE MaxFds
    BY <1>1, <1>4, MemoryAssumption
  <2> QED BY <1>1, <1>2, <1>3, <2>1, <2>2 DEF TypeOK
<1>6. FreeIsVacant'
  BY <1>1, <1>3 DEF FreeIsVacant
<1>7. PositionInFile'
  BY <1>2, <1>3 DEF PositionInFile
<1> QED BY <1>5, <1>6, <1>7 DEF IInv

(* A step that leaves the descriptors alone, but may lose a number.        *)
LEMMA OthersPreserve ==
    ASSUME IInv, UNCHANGED <<fds, free, next>>, mem' \in Nat, others' \in Nat,
           status' \in {"running", "trapped", "panicked"}
    PROVE  IInv'
BY DEF IInv, TypeOK, FreeIsVacant, PositionInFile

LEMMA FilesAreDescriptors ==
    ASSUME NEW n \in Nat, NEW o \in BOOLEAN
    PROVE  File(n, o) \in Descriptors /\ File(n, o).pos \in 0 .. File(n, o).len
<1>1. <<>> \in Seq(STRING)
  OBVIOUS
<1> QED BY <1>1 DEF File, Descriptors

LEMMA InitEstablishes == Init => IInv
<1> SUFFICES ASSUME Init PROVE IInv
  OBVIOUS
<1> USE MemoryAssumption
<1>1. PICK n \in Lengths :
        /\ n <= Memory /\ mem = Memory - n
        /\ fds = [fd \in 0 .. 3 |->
                    IF fd = 0 THEN File(n, TRUE) ELSE IF fd = 3 THEN Directory(<<>>, <<>>) ELSE Std]
  BY DEF Init
<1>2. \A d \in {File(n, TRUE), Directory(<<>>, <<>>), Std} :
        d \in Descriptors /\ d.pos \in 0 .. d.len
  <2>1. <<>> \in Seq(STRING)
    OBVIOUS
  <2>2. Directory(<<>>, <<>>) \in Descriptors /\ Directory(<<>>, <<>>).pos \in 0 .. Directory(<<>>, <<>>).len
    BY <2>1 DEF Directory, Descriptors
  <2>3. Std \in Descriptors /\ Std.pos \in 0 .. Std.len
    BY <2>1 DEF Std, Descriptors
  <2> QED BY <2>2, <2>3, FilesAreDescriptors
<1>3. DOMAIN fds = 0 .. 3 /\ fds \in [0 .. 3 -> Descriptors] /\ PositionInFile
  BY <1>1, <1>2 DEF PositionInFile
<1>4. Cardinality(DOMAIN fds) = 4
  <2>1. 0 \in Int /\ 3 \in Int
    OBVIOUS
  <2>2. Cardinality(0 .. 3) = 4
    <3>1. Cardinality(0 .. 3) = IF 0 > 3 THEN 0 ELSE 3 - 0 + 1
      BY <2>1, FS_Interval
    <3> QED BY <3>1
  <2> QED BY <1>3, <2>2
<1>5. free = <<>> /\ next = 3 /\ mem \in Nat /\ others = 0 /\ status = "running"
  BY <1>1 DEF Init
<1> QED BY <1>3, <1>4, <1>5 DEF IInv, TypeOK, FreeIsVacant

LEMMA ClosePreserves == ASSUME IInv, FdClose PROVE IInv'
<1>1. PICK fd \in DOMAIN fds :
        /\ fds' = [f \in DOMAIN fds \ {fd} |-> fds[f]]
        /\ mem' = mem + (IF fds[fd].owned THEN fds[fd].len ELSE 0)
        /\ free' = Append(free, fd)
  BY DEF FdClose
<1>2. next' = next /\ others' = others /\ status' = status
  BY DEF FdClose
<1>3. /\ next \in Nat \ 0 .. 2 /\ DOMAIN fds \subseteq 0 .. next
      /\ fds \in [DOMAIN fds -> Descriptors] /\ free \in Seq(0 .. next)
      /\ mem \in Nat /\ others \in Nat /\ status \in {"running", "trapped", "panicked"}
      /\ Cardinality(DOMAIN fds) <= IF MaxFds < 4 THEN 4 ELSE MaxFds
  BY DEF IInv, TypeOK
<1>4. /\ DOMAIN fds' = DOMAIN fds \ {fd}
      /\ \A f \in DOMAIN fds' : fds'[f] = fds[f]
      /\ fds' \in [DOMAIN fds' -> Descriptors]
  BY <1>1, <1>3
<1>5. TypeOK'
  <2>1. Cardinality(DOMAIN fds') <= IF MaxFds < 4 THEN 4 ELSE MaxFds
    <3>1. IsFiniteSet(DOMAIN fds)
      BY <1>3, FiniteFds
    <3>2. Cardinality(DOMAIN fds') = Cardinality(DOMAIN fds) - 1 /\ Cardinality(DOMAIN fds) \in Nat
      BY <1>4, <3>1, FS_RemoveElement, FS_CardinalityType
    <3> QED BY <1>3, <3>2, MemoryAssumption
  <2>2. fds[fd].len \in Nat
    BY <1>3 DEF Descriptors
  <2>3. mem' \in Nat
    BY <1>1, <1>3, <2>2
  <2>4. free' \in Seq(0 .. next)
    BY <1>1, <1>3
  <2> QED BY <1>2, <1>3, <1>4, <2>1, <2>3, <2>4 DEF TypeOK
<1>6. FreeIsVacant'
  <2>1. /\ Len(free') = Len(free) + 1 /\ free'[Len(free) + 1] = fd /\ Len(free) \in Nat
        /\ \A i \in 1 .. Len(free) : free'[i] = free[i]
    BY <1>1, <1>3
  <2>2. /\ \A i \in 1 .. Len(free) : free[i] \notin DOMAIN fds
        /\ \A i, j \in 1 .. Len(free) : free[i] = free[j] => i = j
    BY DEF IInv, FreeIsVacant
  <2> QED BY <1>1, <1>4, <2>1, <2>2 DEF FreeIsVacant
<1>7. PositionInFile'
  BY <1>4 DEF IInv, PositionInFile
<1> QED BY <1>5, <1>6, <1>7 DEF IInv

LEMMA PlacePreserves == ASSUME IInv, PlaceContent PROVE IInv'
<1> USE MemoryAssumption
<1>0. mem \in Nat /\ others \in Nat /\ status \in {"running", "trapped", "panicked"}
  BY DEF IInv, TypeOK
<1>1. CASE Stop("trapped")
  BY <1>0, <1>1, OthersPreserve DEF Stop, PlaceContent
<1>2. CASE ~Stop("trapped")
  <2>1. PICK n \in Lengths, fd \in 0 .. next + 1 :
          /\ mem >= n /\ AllocFd(mem - n, fd) /\ Open(fd, File(n, TRUE))
          /\ UNCHANGED <<status, others>>
    BY <1>2 DEF PlaceContent
  <2>2. n \in Nat /\ mem - n \in Nat
    BY <1>0, <2>1
  <2> QED BY <2>1, <2>2, FilesAreDescriptors, OpenPreserves
<1> QED BY <1>1, <1>2

LEMMA PathOpenPreserves == ASSUME IInv, PathOpen PROVE IInv'
<1>0. mem \in Nat /\ others \in Nat /\ status \in {"running", "trapped", "panicked"}
      /\ fds \in [DOMAIN fds -> Descriptors]
  BY DEF IInv, TypeOK
<1>1. CASE Stop("trapped")
  BY <1>0, <1>1, OthersPreserve DEF Stop, PathOpen
<1>2. CASE ~Stop("trapped")
  <2>1. PICK fd \in 0 .. next + 1, dirfd \in DOMAIN fds, names \in Paths :
          LET dirPath == fds[dirfd].path
              node == NodeAt(dirPath, names)
          IN  /\ AllocFd(mem, fd)
              /\ IF fds[dirfd].kind # "dir" \/ node \notin DOMAIN Tree THEN UNCHANGED fds
                 ELSE IF Tree[node] = Dir THEN Open(fd, Directory(NotedPath(dirPath, names), node))
                 ELSE Open(fd, File(Tree[node], FALSE))
    BY <1>2 DEF PathOpen
  <2>2. UNCHANGED <<others, status>>
    BY <1>2 DEF PathOpen
  <2> DEFINE dirPath == fds[dirfd].path
             node == NodeAt(dirPath, names)
  <2>3. AllocFd(mem, fd)
    BY <2>1
  <2>4. CASE UNCHANGED fds
    <3>1. /\ next' \in Nat /\ next <= next' /\ mem' \in Nat
          /\ free' \in Seq(0 .. next')
          /\ \A i \in 1 .. Len(free') : free'[i] \notin DOMAIN fds \cup {fd}
          /\ \A i, j \in 1 .. Len(free') : free'[i] = free'[j] => i = j
      BY <1>0, <2>3, AllocGivesVacant
    <3>2. /\ next \in Nat \ 0 .. 2 /\ DOMAIN fds \subseteq 0 .. next
          /\ Cardinality(DOMAIN fds) <= IF MaxFds < 4 THEN 4 ELSE MaxFds
          /\ PositionInFile
      BY DEF IInv, TypeOK
    <3>3. TypeOK'
      BY <1>0, <2>2, <2>4, <3>1, <3>2 DEF TypeOK
    <3>4. FreeIsVacant'
      BY <2>4, <3>1 DEF FreeIsVacant
    <3>5. PositionInFile'
      BY <2>4, <3>2 DEF PositionInFile
    <3> QED BY <3>3, <3>4, <3>5 DEF IInv
  <2>5. CASE node \in DOMAIN Tree /\ Open(fd, Directory(NotedPath(dirPath, names), node))
    <3>1. dirPath \in Seq(STRING) /\ node \in Seq(STRING)
      BY <1>0, <2>5, TreeAssumption DEF Descriptors
    <3> HIDE DEF node, dirPath
    <3>2. dirPath \o node \in Seq(STRING)
      BY <3>1
    <3>3. Directory(dirPath \o node, node) \in Descriptors
          /\ Directory(dirPath \o node, node).pos \in 0 .. Directory(dirPath \o node, node).len
      BY <3>1, <3>2 DEF Directory, Descriptors
    <3>4. NotedPath(dirPath, names) = dirPath \o node
      BY DEF NotedPath, node
    <3> QED BY <1>0, <2>2, <2>3, <2>5, <3>3, <3>4, OpenPreserves
  <2>6. CASE node \in DOMAIN Tree /\ Tree[node] # Dir /\ Open(fd, File(Tree[node], FALSE))
    <3>1. Tree[node] \in Nat
      BY <2>6, TreeAssumption
    <3> QED BY <1>0, <2>2, <2>3, <2>6, <3>1, FilesAreDescriptors, OpenPreserves
  <2> QED BY <2>1, <2>4, <2>5, <2>6
<1> QED BY <1>1, <1>2

(* A position moved to where reading and seeking move it.                  *)
LEMMA MovePreserves ==
    ASSUME IInv, NEW fd \in DOMAIN fds, NEW pos \in 0 .. fds[fd].len, MovePos(fd, pos)
    PROVE  IInv'
<1>1. fds \in [DOMAIN fds -> Descriptors]
  BY DEF IInv, TypeOK
<1>2. fds[fd].len \in Nat /\ pos \in Nat
  BY <1>1 DEF Descriptors
<1>3. /\ DOMAIN fds' = DOMAIN fds
      /\ fds'[fd] = [fds[fd] EXCEPT !.pos = pos]
      /\ \A f \in DOMAIN fds \ {fd} : fds'[f] = fds[f]
  BY <1>1 DEF MovePos
<1>4. [fds[fd] EXCEPT !.pos = pos] \in Descriptors
      /\ [fds[fd] EXCEPT !.pos = pos].pos = pos
      /\ [fds[fd] EXCEPT !.pos = pos].len = fds[fd].len
  BY <1>1, <1>2 DEF Descriptors
<1>5. fds' \in [DOMAIN fds' -> Descriptors]
  BY <1>1, <1>3, <1>4 DEF MovePos
<1>6. PositionInFile'
  BY <1>3, <1>4 DEF IInv, PositionInFile
<1>7. UNCHANGED <<free, next, mem, others, status>>
  BY DEF MovePos
<1> QED BY <1>3, <1>5, <1>6, <1>7 DEF IInv, TypeOK, FreeIsVacant

LEMMA ReadPreserves == ASSUME IInv, FdRead PROVE IInv'
<1>1. PICK fd \in DOMAIN fds, n \in Offsets :
        n >= 0 /\ MovePos(fd, fds[fd].pos + Lower(n, fds[fd].len - fds[fd].pos))
  BY DEF FdRead
<1>2. fds[fd].len \in Nat /\ fds[fd].pos \in 0 .. fds[fd].len /\ n \in Int
  BY MemoryAssumption DEF IInv, TypeOK, Descriptors, PositionInFile
<1>3. fds[fd].pos + Lower(n, fds[fd].len - fds[fd].pos) \in 0 .. fds[fd].len
  BY <1>1, <1>2 DEF Lower
<1> QED BY <1>1, <1>3, MovePreserves

LEMMA SeekPreserves == ASSUME IInv, FdSeek PROVE IInv'
<1>1. PICK fd \in DOMAIN fds, offset \in Offsets :
        \/ MovePos(fd, Clamp(fds[fd].pos + offset, fds[fd].len))
        \/ MovePos(fd, Clamp(offset, fds[fd].len))
  BY DEF FdSeek
<1>2. fds[fd].len \in Nat /\ fds[fd].pos \in 0 .. fds[fd].len /\ offset \in Int
  BY MemoryAssumption DEF IInv, TypeOK, Descriptors, PositionInFile
<1>3. \A n \in Int : Clamp(n, fds[fd].len) \in 0 .. fds[fd].len
  BY <1>2 DEF Clamp, Lower
<1>4. fds[fd].pos + offset \in Int
  BY <1>2
<1> QED BY <1>1, <1>2, <1>3, <1>4, MovePreserves

LEMMA StepPreserves == IInv /\ [Next]_vars => IInv'
<1> SUFFICES ASSUME IInv, [Next]_vars PROVE IInv'
  OBVIOUS
<1>0. mem \in Nat /\ others \in Nat /\ status \in {"running", "trapped", "panicked"}
  BY DEF IInv, TypeOK
<1>1. CASE PlaceContent
  BY <1>1, PlacePreserves
<1>2. CASE FdClose
  BY <1>2, ClosePreserves
<1>3. CASE PathOpen
  BY <1>3, PathOpenPreserves
<1>4. CASE FdRead
  BY <1>4, ReadPreserves
<1>5. CASE FdSeek
  BY <1>5, SeekPreserves
<1>6. CASE FdPreadPastEnd
  BY <1>0, <1>6, OthersPreserve DEF FdPreadPastEnd, Stop
<1>7. CASE Neighbours
  <2>1. mem' \in Nat /\ others' \in Nat
    BY <1>0, <1>7 DEF Neighbours
  <2> QED BY <1>0, <1>7, <2>1, OthersPreserve DEF Neighbours
<1>8. CASE Over \/ UNCHANGED vars
  BY <1>0, <1>8, OthersPreserve DEF Over, vars
<1> QED BY <1>1, <1>2, <1>3, <1>4, <1>5, <1>6, <1>7, <1>8 DEF Next

THEOREM InductiveInvariant == Spec => []IInv
BY InitEstablishes, StepPreserves, PTL DEF Spec

-----------------------------------------------------------------------------
(* At most MAX_FDS descriptors are open, and the fields of VFS have their  *)
(* types.                                                                  *)
THEOREM TypeCorrect == Spec => []TypeOK
<1>1. IInv => TypeOK
  BY DEF IInv
<1> QED BY <1>1, InductiveInvariant, PTL

(* The stack of free descriptors holds no open number and none twice,      *)
(* numbers lost by path_open notwithstanding.                              *)
THEOREM VacantNumbers == Spec => []FreeIsVacant
<1>1. IInv => FreeIsVacant
  BY DEF IInv
<1> QED BY <1>1, InductiveInvariant, PTL

(* What is left to read of a file never wraps.                             *)
THEOREM PositionsInFiles == Spec => []PositionInFile
<1>1. IInv => PositionInFile
  BY DEF IInv
<1> QED BY <1>1, InductiveInvariant, PTL

(* The three together, for every sequence of calls: the run checks them as *)
(* DescriptorsSound.                                                       *)
THEOREM DescriptorsAreSound == Spec => []DescriptorsSound
BY TypeCorrect, VacantNumbers, PositionsInFiles, PTL DEF DescriptorsSound

(* No call replaces an open descriptor: until it is closed only its        *)
(* position moves.                                                         *)
KeepsContents(fd) == [fds'[fd] EXCEPT !.pos = 0] = [fds[fd] EXCEPT !.pos = 0]

LEMMA OpenKeepsContents ==
    ASSUME IInv, NEW m \in Nat, NEW fd, AllocFd(m, fd), NEW desc, Open(fd, desc),
           NEW f \in DOMAIN fds
    PROVE  KeepsContents(f)
<1>1. fd \notin DOMAIN fds
  BY AllocGivesVacant
<1> QED BY <1>1 DEF Open, KeepsContents

LEMMA MoveKeepsContents ==
    ASSUME IInv, NEW fd \in DOMAIN fds, NEW pos, MovePos(fd, pos), NEW f \in DOMAIN fds
    PROVE  KeepsContents(f)
<1>1. fds \in [DOMAIN fds -> Descriptors]
  BY DEF IInv, TypeOK
<1>2. CASE f # fd
  BY <1>1, <1>2 DEF MovePos, KeepsContents
<1>3. CASE f = fd
  <2>1. fds'[fd] = [fds[fd] EXCEPT !.pos = pos]
    BY <1>1 DEF MovePos
  <2>2. [[fds[fd] EXCEPT !.pos = pos] EXCEPT !.pos = 0] = [fds[fd] EXCEPT !.pos = 0]
    BY <1>1 DEF Descriptors
  <2> QED BY <1>3, <2>1, <2>2 DEF KeepsContents
<1> QED BY <1>2, <1>3

THEOREM OpenFdsKept == Spec => OpenFdsKeepContents
<1>1. IInv /\ [Next]_vars =>
        [\A fd \in DOMAIN fds \cap DOMAIN fds' :
            [fds'[fd] EXCEPT !.pos = 0] = [fds[fd] EXCEPT !.pos = 0]]_vars
  <2> SUFFICES ASSUME IInv, Next, NEW f \in DOMAIN fds \cap DOMAIN fds'
               PROVE  KeepsContents(f)
    BY DEF KeepsContents
  <2>0. mem \in Nat
    BY DEF IInv, TypeOK
  <2>1. CASE UNCHANGED fds
    BY <2>1 DEF KeepsContents
  <2>2. CASE PlaceContent
    <3>1. CASE Stop("trapped")
      BY <2>1, <3>1 DEF Stop
    <3>2. CASE ~Stop("trapped")
      <4>1. PICK n \in Lengths, fd \in 0 .. next + 1 :
              mem >= n /\ AllocFd(mem - n, fd) /\ Open(fd, File(n, TRUE))
        BY <2>2, <3>2 DEF PlaceContent
      <4>2. mem - n \in Nat
        BY <2>0, <4>1, MemoryAssumption
      <4> QED BY <4>1, <4>2, OpenKeepsContents
    <3> QED BY <3>1, <3>2
  <2>3. CASE FdClose
    BY <2>3 DEF FdClose, KeepsContents
  <2>4. CASE PathOpen
    <3>1. CASE Stop("trapped")
      BY <2>1, <3>1 DEF Stop
    <3>2. CASE ~Stop("trapped")
      <4>1. PICK fd \in 0 .. next + 1 :
              AllocFd(mem, fd) /\ (UNCHANGED fds \/ \E desc : Open(fd, desc))
        BY <2>4, <3>2 DEF PathOpen
      <4> QED BY <2>0, <2>1, <4>1, OpenKeepsContents
    <3> QED BY <3>1, <3>2
  <2>5. CASE FdRead \/ FdSeek
    <3>1. PICK fd \in DOMAIN fds : \E pos : MovePos(fd, pos)
      BY <2>5 DEF FdRead, FdSeek
    <3> QED BY <3>1, MoveKeepsContents
  <2>6. CASE FdPreadPastEnd \/ Neighbours \/ Over
    BY <2>1, <2>6 DEF FdPreadPastEnd, Neighbours, Over, Stop, vars
  <2> QED BY <2>2, <2>3, <2>4, <2>5, <2>6 DEF Next
<1> QED BY <1>1, InductiveInvariant, PTL DEF Spec, OpenFdsKeepContents

-----------------------------------------------------------------------------
(* The memory charged.                                                     *)

Charged == SumFunctionOnSet(Charges, DOMAIN fds)

LEMMA ChargesType ==
    ASSUME IInv
    PROVE  /\ IsFiniteSet(DOMAIN fds) /\ Charged \in Int
           /\ \A fd \in DOMAIN fds : Charges[fd] \in Int
<1>1. IsFiniteSet(DOMAIN fds)
  BY FiniteFds DEF IInv, TypeOK
<1>2. \A fd \in DOMAIN fds : Charges[fd] \in Int
  BY DEF Charges, IInv, TypeOK, Descriptors
<1>3. SumFunctionOnSet(Charges, DOMAIN fds) \in Int
  BY ONLY <1>1, <1>2, SumType
<1> QED BY <1>1, <1>2, <1>3 DEF Charged

(* What alloc_fd takes from the limiter is the price of a new number.      *)
LEMMA PriceOfNumber ==
    \A n, n2, f, m, m2 \in Int :
        n2 = n + 1 /\ m2 = m - f => m2 + (n2 - 3) * f = m + (n - 3) * f
<1> TAKE n, n2, f, m, m2 \in Int
<1> HAVE n2 = n + 1 /\ m2 = m - f
<1>1. (n2 - 3) * f = (n - 3) * f + f
  OBVIOUS
<1>2. PICK a \in Int, b \in Int : a = (n - 3) * f /\ b = (n2 - 3) * f
  OBVIOUS
<1>3. b = a + f /\ m2 = m - f
  BY <1>1, <1>2
<1>4. m2 + b = m + a
  BY ONLY <1>3
<1> QED BY ONLY <1>2, <1>4, Zenon

LEMMA AllocCharges ==
    ASSUME IInv, NEW m \in Nat, NEW fd, AllocFd(m, fd)
    PROVE  mem' + (next' - 3) * FdAllocation = m + (next - 3) * FdAllocation
<1>1. next \in Int /\ FdAllocation \in Int /\ m \in Int
  BY MemoryAssumption DEF IInv, TypeOK
<1>2. \/ mem' = m /\ next' = next
      \/ next' = next + 1 /\ mem' = m - FdAllocation
  BY DEF AllocFd
<1>3. CASE next' = next + 1 /\ mem' = m - FdAllocation
  <2>1. next' \in Int /\ mem' \in Int
    BY <1>1, <1>3
  <2>2. PICK n \in Int, n2 \in Int, f \in Int, m2 \in Int :
          n = next /\ n2 = next' /\ f = FdAllocation /\ m2 = mem'
    BY ONLY <1>1, <2>1, Zenon
  <2>3. n2 = n + 1 /\ m2 = m - f
    BY ONLY <1>3, <2>2
  <2>4. m2 + (n2 - 3) * f = m + (n - 3) * f
    BY ONLY <1>1, <2>3, PriceOfNumber
  <2> QED BY ONLY <2>2, <2>4
<1>4. CASE mem' = m /\ next' = next
  BY ONLY <1>4, Zenon
<1> QED BY <1>2, <1>3, <1>4

(* The arithmetic of a step: what leaves the limiter is charged.           *)
LEMMA ChargedMove ==
    ASSUME IInv, IInv', MemoryAccounted, NEW d \in Int,
           mem' + (next' - 3) * FdAllocation + d = mem + (next - 3) * FdAllocation,
           Charged' = Charged + d, others' = others
    PROVE  MemoryAccounted'
<1>1. /\ next \in Nat /\ FdAllocation \in Nat /\ mem \in Int /\ others \in Int
      /\ next' \in Nat /\ mem' \in Int /\ Memory \in Int
  BY MemoryAssumption DEF IInv, TypeOK
<1>2. (next - 3) * FdAllocation \in Int /\ (next' - 3) * FdAllocation \in Int
  BY ONLY <1>1
<1>3. Charged \in Int /\ Charged' \in Int
  BY ChargesType
<1>4. mem + others + (next - 3) * FdAllocation + Charged = Memory
  BY DEF MemoryAccounted, Charged
<1>5. mem' + others + (next' - 3) * FdAllocation + Charged' = Memory
  <2>1. PICK m \in Int, m2 \in Int, a \in Int, a2 \in Int :
          /\ m = mem /\ m2 = mem' /\ a = (next - 3) * FdAllocation
          /\ a2 = (next' - 3) * FdAllocation
    BY <1>1, <1>2, Zenon
  <2>2. PICK o \in Int, c \in Int, c2 \in Int, t \in Int :
          o = others /\ c = Charged /\ c2 = Charged' /\ t = Memory
    BY <1>1, <1>3, Zenon
  <2>3. m + o + a + c = t
    BY ONLY <1>4, <2>1, <2>2
  <2>4. m2 + a2 + d = m + a /\ c2 = c + d
    BY <2>1, <2>2
  <2>5. m2 + o + a2 + c2 = t
    BY ONLY <2>3, <2>4
  <2> QED BY ONLY <2>1, <2>2, <2>5
<1> QED BY <1>5 DEF MemoryAccounted, Charged

(* A descriptor opened under a vacant number adds what it owns.            *)
LEMMA OpenCharges ==
    ASSUME IInv, NEW m \in Nat, NEW fd, AllocFd(m, fd),
           NEW n \in Nat, NEW desc, Open(fd, desc),
           n = IF desc.owned THEN desc.len ELSE 0
    PROVE  Charged' = Charged + n
<1>1. fd \notin DOMAIN fds
  BY AllocGivesVacant
<1>2. /\ IsFiniteSet(DOMAIN fds) /\ \A f \in DOMAIN fds : Charges[f] \in Int
  BY ChargesType
<1>3. DOMAIN fds' = DOMAIN fds \cup {fd} /\ fds'[fd] = desc
      /\ \A f \in DOMAIN fds : fds'[f] = fds[f]
  BY <1>1 DEF Open
<1> DEFINE S == DOMAIN fds
<1>e. PICK e : e = Charges'
  OBVIOUS
<1>4. e[fd] = n /\ IntsOn(Charges, S) /\ AgreeOn(Charges, e, S)
  BY <1>1, <1>2, <1>3, <1>e DEF Charges, IntsOn, AgreeOn
<1>5. SumFunctionOnSet(e, S \cup {fd}) = SumFunctionOnSet(Charges, S) + e[fd]
  <2>1. fd \notin S /\ IsFiniteSet(S) /\ e[fd] \in Int
    BY <1>1, <1>2, <1>4
  <2> HIDE DEF S
  <2>2. PICK c, T : c = Charges /\ T = S
    OBVIOUS
  <2>3. fd \notin T /\ IsFiniteSet(T) /\ e[fd] \in Int /\ IntsOn(c, T) /\ AgreeOn(c, e, T)
    BY ONLY <1>4, <2>1, <2>2
  <2>4. SumFunctionOnSet(e, T \cup {fd}) = SumFunctionOnSet(c, T) + e[fd]
    BY ONLY <2>3, SumAdd
  <2> QED BY ONLY <2>2, <2>4
<1> QED BY <1>3, <1>4, <1>5, <1>e DEF Charged

LEMMA CloseCharges ==
    ASSUME IInv, NEW fd \in DOMAIN fds, fds' = [f \in DOMAIN fds \ {fd} |-> fds[f]]
    PROVE  Charged' = Charged - (IF fds[fd].owned THEN fds[fd].len ELSE 0)
           /\ (IF fds[fd].owned THEN fds[fd].len ELSE 0) \in Int
<1> DEFINE S == DOMAIN fds
           e == Charges'
<1>1. /\ IsFiniteSet(S) /\ \A f \in S : Charges[f] \in Int
  BY ChargesType
<1>2. /\ SumFunctionOnSet(Charges, S) = Charges[fd] + SumFunctionOnSet(Charges, S \ {fd})
      /\ SumFunctionOnSet(Charges, S \ {fd}) \in Int
  BY ONLY <1>1, fd \in S, SumSplit
<1>3. DOMAIN fds' = S \ {fd} /\ \A f \in S \ {fd} : Charges[f] \in Int /\ e[f] = Charges[f]
  BY <1>1 DEF Charges
<1>4. IsFiniteSet(S \ {fd})
  BY <1>1, FS_RemoveElement
<1> HIDE DEF e
<1>5. SumFunctionOnSet(e, S \ {fd}) = SumFunctionOnSet(Charges, S \ {fd})
  BY ONLY <1>3, <1>4, SumSame
<1>6. Charged' = SumFunctionOnSet(Charges, S \ {fd})
  BY <1>3, <1>5 DEF Charged, e
<1>7. Charges[fd] = (IF fds[fd].owned THEN fds[fd].len ELSE 0) /\ Charges[fd] \in Int
  BY <1>1 DEF Charges
<1> HIDE DEF S
<1>8. Charged = SumFunctionOnSet(Charges, S)
  BY DEF Charged, S
<1> QED BY <1>2, <1>6, <1>7, <1>8

LEMMA MoveCharges ==
    ASSUME IInv, NEW fd \in DOMAIN fds, NEW pos, MovePos(fd, pos)
    PROVE  Charged' = Charged
<1>1. fds \in [DOMAIN fds -> Descriptors]
  BY DEF IInv, TypeOK
<1>2. /\ DOMAIN fds' = DOMAIN fds
      /\ fds'[fd] = [fds[fd] EXCEPT !.pos = pos]
      /\ \A f \in DOMAIN fds \ {fd} : fds'[f] = fds[f]
  BY <1>1 DEF MovePos
<1>3. [fds[fd] EXCEPT !.pos = pos].len = fds[fd].len
      /\ [fds[fd] EXCEPT !.pos = pos].owned = fds[fd].owned
  BY <1>1 DEF Descriptors
<1>4. Charges' = Charges
  BY <1>2, <1>3 DEF Charges
<1> QED BY <1>2, <1>4 DEF Charged

(* Stops, and the other users of the limiter.                              *)
LEMMA OthersCharge ==
    ASSUME IInv, MemoryAccounted, UNCHANGED <<fds, next>>,
           mem' \in Int, others' \in Int, mem' + others' = mem + others
    PROVE  MemoryAccounted'
<1>1. Charges' = Charges
  BY DEF Charges
<1> QED BY <1>1 DEF MemoryAccounted

LEMMA StepAccounts == IInv /\ IInv' /\ MemoryAccounted /\ [Next]_vars => MemoryAccounted'
<1> SUFFICES ASSUME IInv, IInv', MemoryAccounted, [Next]_vars PROVE MemoryAccounted'
  OBVIOUS
<1> USE MemoryAssumption
<1>0. /\ mem \in Nat /\ others \in Nat /\ next \in Nat /\ fds \in [DOMAIN fds -> Descriptors]
      /\ mem' \in Nat /\ others' \in Nat /\ next' \in Nat
  BY DEF IInv, TypeOK
<1>p. (next - 3) * FdAllocation \in Int /\ (next' - 3) * FdAllocation \in Int
  BY ONLY <1>0, MemoryAssumption
<1>c. Charged \in Int
  BY ChargesType
<1>1. CASE UNCHANGED <<fds, next, mem, others>>
  BY <1>0, <1>1, OthersCharge
<1>2. CASE PlaceContent
  <2>1. CASE Stop("trapped")
    BY <1>1, <1>2, <2>1 DEF Stop, PlaceContent
  <2>2. CASE ~Stop("trapped")
    <3>1. PICK n \in Lengths, fd \in 0 .. next + 1 :
            mem >= n /\ AllocFd(mem - n, fd) /\ Open(fd, File(n, TRUE)) /\ others' = others
      BY <1>2, <2>2 DEF PlaceContent
    <3>2. n \in Nat /\ mem - n \in Nat
      BY <1>0, <3>1
    <3>3. n = IF File(n, TRUE).owned THEN File(n, TRUE).len ELSE 0
      BY DEF File
    <3>4. Charged' = Charged + n
      BY <3>1, <3>2, <3>3, OpenCharges
    <3>5. mem' + (next' - 3) * FdAllocation = mem - n + (next - 3) * FdAllocation
      BY <3>1, <3>2, AllocCharges
    <3>6. mem' + (next' - 3) * FdAllocation + n = mem + (next - 3) * FdAllocation
      BY ONLY <1>0, <1>p, <3>2, <3>5
    <3> QED BY <3>1, <3>2, <3>4, <3>6, ChargedMove
  <2> QED BY <2>1, <2>2
<1>3. CASE FdClose
  <2>1. PICK fd \in DOMAIN fds :
          /\ fds' = [f \in DOMAIN fds \ {fd} |-> fds[f]]
          /\ mem' = mem + (IF fds[fd].owned THEN fds[fd].len ELSE 0)
    BY <1>3 DEF FdClose
  <2> DEFINE n == IF fds[fd].owned THEN fds[fd].len ELSE 0
  <2>2. Charged' = Charged - n /\ n \in Int
    BY <2>1, CloseCharges
  <2>3. mem' = mem + n /\ next' = next /\ others' = others
    BY <1>3, <2>1 DEF FdClose
  <2> HIDE DEF n
  <2>4. -n \in Int /\ Charged' = Charged + (-n)
        /\ mem' + (next' - 3) * FdAllocation + (-n) = mem + (next - 3) * FdAllocation
    BY ONLY <1>0, <1>c, <1>p, <2>2, <2>3
  <2> QED BY <2>3, <2>4, ChargedMove
<1>4. CASE PathOpen
  <2>1. CASE Stop("trapped")
    BY <1>1, <1>4, <2>1 DEF Stop, PathOpen
  <2>2. CASE ~Stop("trapped")
    <3>1. PICK fd \in 0 .. next + 1 :
            /\ AllocFd(mem, fd)
            /\ \/ UNCHANGED fds
               \/ \E path, node : Open(fd, Directory(path, node))
               \/ \E len : Open(fd, File(len, FALSE))
      BY <1>4, <2>2 DEF PathOpen
    <3>2. Charged' = Charged + 0
      <4>1. CASE UNCHANGED fds
        <5>1. Charges' = Charges
          BY <4>1 DEF Charges
        <5>2. Charged' = Charged
          BY <4>1, <5>1 DEF Charged
        <5> QED BY <1>c, <5>2
      <4>2. ASSUME NEW path, NEW node, Open(fd, Directory(path, node)) PROVE Charged' = Charged + 0
        <5>1. 0 = IF Directory(path, node).owned THEN Directory(path, node).len ELSE 0
          BY DEF Directory
        <5> QED BY <1>0, <3>1, <4>2, <5>1, OpenCharges
      <4>3. ASSUME NEW len, Open(fd, File(len, FALSE)) PROVE Charged' = Charged + 0
        <5>1. 0 = IF File(len, FALSE).owned THEN File(len, FALSE).len ELSE 0
          BY DEF File
        <5> QED BY <1>0, <3>1, <4>3, <5>1, OpenCharges
      <4> QED BY <3>1, <4>1, <4>2, <4>3
    <3>3. mem' + (next' - 3) * FdAllocation = mem + (next - 3) * FdAllocation
      BY <1>0, <3>1, AllocCharges
    <3>4. mem' + (next' - 3) * FdAllocation + 0 = mem + (next - 3) * FdAllocation
      BY ONLY <1>0, <1>p, <3>3
    <3>5. others' = others
      BY <1>4 DEF PathOpen
    <3> QED BY <3>2, <3>4, <3>5, ChargedMove
  <2> QED BY <2>1, <2>2
<1>5. CASE FdRead \/ FdSeek
  <2>1. PICK fd \in DOMAIN fds : \E pos : MovePos(fd, pos)
    BY <1>5 DEF FdRead, FdSeek
  <2>2. Charged' = Charged + 0 /\ others' = others
    <3>1. Charged' = Charged
      BY <2>1, MoveCharges
    <3> QED BY <1>c, <2>1, <3>1 DEF MovePos
  <2>3. mem' = mem /\ next' = next
    BY <2>1 DEF MovePos
  <2>4. mem' + (next' - 3) * FdAllocation + 0 = mem + (next - 3) * FdAllocation
    BY ONLY <1>0, <1>p, <2>3
  <2> QED BY <2>2, <2>4, ChargedMove
<1>6. CASE FdPreadPastEnd \/ Over \/ UNCHANGED vars
  BY <1>1, <1>6 DEF FdPreadPastEnd, Stop, Over, vars
<1>7. CASE Neighbours
  <2>1. UNCHANGED <<fds, next>> /\ mem' + others' = mem + others
    BY <1>0, <1>7 DEF Neighbours
  <2> QED BY <1>0, <2>1, OthersCharge
<1> QED BY <1>2, <1>3, <1>4, <1>5, <1>6, <1>7 DEF Next

LEMMA InitAccounts == Init => MemoryAccounted
<1> SUFFICES ASSUME Init PROVE MemoryAccounted
  OBVIOUS
<1>i. IInv
  BY InitEstablishes
<1>1. PICK n \in Lengths :
        /\ n <= Memory /\ mem = Memory - n
        /\ fds = [fd \in 0 .. 3 |->
                    IF fd = 0 THEN File(n, TRUE) ELSE IF fd = 3 THEN Directory(<<>>, <<>>) ELSE Std]
  BY DEF Init
<1>n. n \in Nat /\ Memory \in Nat /\ FdAllocation \in Nat
  BY MemoryAssumption
<1>2. /\ DOMAIN fds = 0 .. 3 /\ next = 3 /\ others = 0
      /\ \A fd \in 0 .. 3 : Charges[fd] = IF fd = 0 THEN n ELSE 0
  BY <1>1 DEF Init, Charges, File, Directory, Std
<1>3. \A S : IsFiniteSet(S) /\ S \subseteq 1 .. 3 => SumFunctionOnSet(Charges, S) = 0
  <2> SUFFICES ASSUME NEW S, IsFiniteSet(S), S \subseteq 1 .. 3 PROVE SumFunctionOnSet(Charges, S) = 0
    OBVIOUS
  <2>1. \A x \in S : Charges[x] = 0
    BY <1>2
  <2> QED BY ONLY <2>1, IsFiniteSet(S), SumZero
<1>4. SumFunctionOnSet(Charges, 0 .. 3) = n
  <2>1. IsFiniteSet(0 .. 3) /\ \A f \in 0 .. 3 : Charges[f] \in Int
    BY <1>i, <1>2, ChargesType
  <2>2. SumFunctionOnSet(Charges, 0 .. 3) = Charges[0] + SumFunctionOnSet(Charges, (0 .. 3) \ {0})
    BY ONLY <2>1, 0 \in 0 .. 3, SumSplit
  <2>3. (0 .. 3) \ {0} = 1 .. 3
    OBVIOUS
  <2>4. IsFiniteSet(1 .. 3)
    BY <2>1, <2>3, FS_RemoveElement
  <2>5. SumFunctionOnSet(Charges, 1 .. 3) = 0
    BY <1>3, <2>4
  <2> QED BY <1>2, <1>n, <2>2, <2>3, <2>5
<1> QED BY <1>1, <1>2, <1>4, <1>n DEF MemoryAccounted

(* After any sequence of calls, failed ones included, the limiter has been *)
(* charged for the bytes of the open results and for the numbers ever      *)
(* given by alloc_fd, and for nothing else.                                *)
THEOREM MemoryIsAccounted == Spec => []MemoryAccounted
BY InitAccounts, StepAccounts, InductiveInvariant, PTL DEF Spec

=============================================================================
