---------------------------- MODULE StorageTypes ----------------------------
(***************************************************************************)
(* How the contract SDK lays typed values out in contract storage          *)
(* (crates/sdk-rs/src/storage: core.rs, array.rs, record.rs, mod.rs).      *)
(*                                                                         *)
(* A storage type has a size in its parent's slot and a handle, which is a *)
(* slot and an offset; variable-length data lives in a slot derived from   *)
(* the handle's own (slot, offset) by a hash.  Nothing but the offsets     *)
(* keeps two values apart, and nothing is ever erased: shrinking a         *)
(* collection only lowers its stored length.                               *)
(*                                                                         *)
(* A slot is the sequence of what derived it: <<n>> is the slot whose 32   *)
(* bytes are the number n, and a hash appends the offset it was taken of,  *)
(* so no two derived slots are equal (sha3 is external).  mem holds the    *)
(* bytes written; every other byte of storage is 0.  val is a history      *)
(* variable: the value a contract put under the root, whatever the layout. *)
(* There a growing collection is its length n and, in "of", what each      *)
(* place for an element last held, those beyond the length included.       *)
(***************************************************************************)
EXTENDS Integers, Sequences, FiniteSets, SequencesExt, Functions

CONSTANTS
  Contract,    \* the storage type of the contract's own data
  Numbers,     \* integers a contract stores
  Strings,     \* strings (or byte arrays) a contract stores: sequences of bytes
  CodeSlots,   \* values of code_slot besides 0
  MaxElems,    \* bound: elements of a collection
  MaxWrites    \* bound: calls a contract makes

VARIABLES mem, val, writes
layoutVars == <<mem, val, writes>>

(*----- types -------------------------------------------------------------*)

\* Numbers and addresses differ in how many bytes they take, little-endian; a float or
\* an address is its bytes as a number.
IntTy(n) == [kind |-> "int", size |-> n]
FloatTy(n) == IntTy(n)
AddressTy == IntTy(20)
U256Ty == IntTy(32)
BoolTy == [kind |-> "bool"]
StrTy == [kind |-> "str"]
BytesTy == StrTy
IndTy(of) == [kind |-> "ind", of |-> of]
ArrayTy(of, n) == [kind |-> "array", of |-> of, n |-> n]
DynTy(of) == [kind |-> "dyn", of |-> of]
VlaTy(of) == [kind |-> "vla", of |-> of]
RecTy(fields) == [kind |-> "rec", fields |-> fields]

\* StorageType::SIZE.  A VLA's is u32::MAX: no sum or product with it fits, so
\* nothing can be placed after one, and it has no size here.
RECURSIVE SizeOf(_)
SizeOf(ty) ==
  CASE ty.kind = "int"              -> ty.size
    [] ty.kind \in {"bool", "ind"}  -> 1
    [] ty.kind \in {"str", "dyn"}   -> 4
    [] ty.kind = "array"            -> SizeOf(ty.of) * ty.n
    [] ty.kind = "rec"              -> FoldSeq(LAMBDA f, sum : SizeOf(f) + sum, 0, ty.fields)

(*----- Slot --------------------------------------------------------------*)

read(m, slot, off, n) ==
  [i \in 1 .. n |-> LET c == <<slot, off + i - 1>> IN IF c \in DOMAIN m THEN m[c] ELSE 0]

write(m, slot, off, buf) ==
  LET cells == {<<slot, off + i - 1>> : i \in DOMAIN buf}
  IN [c \in DOMAIN m \cup cells |-> IF c \in cells THEN buf[c[2] - off + 1] ELSE m[c]]

indirect(slot, off) == Append(slot, off)

(*----- handles -----------------------------------------------------------*)

\* path leads from the root to the value, for the history variable only.
HandleAt(ty, slot, off, path) == [ty |-> ty, slot |-> slot, off |-> off, path |-> path]

ToLe(v, n) == [i \in 1 .. n |-> IF i > 3 THEN 0 ELSE (v \div 256 ^ (i - 1)) % 256]
FromLe(buf) == FoldRight(LAMBDA b, acc : b + 256 * acc, buf, 0)

GetInt(m, h) == FromLe(read(m, h.slot, h.off, h.ty.size))
SetInt(m, h, v) == write(m, h.slot, h.off, ToLe(v, h.ty.size))
GetBool(m, h) == read(m, h.slot, h.off, 1)[1] # 0
SetBool(m, h, v) == write(m, h.slot, h.off, <<IF v THEN 1 ELSE 0>>)

\* Strings, byte arrays, DynArrays and VLAs keep a u32 length at the handle.
len_(m, h) == FromLe(read(m, h.slot, h.off, 4))
set_len(m, h, n) == write(m, h.slot, h.off, ToLe(n, 4))

load(m, h) == read(m, indirect(h.slot, h.off), 0, len_(m, h))
store(m, h, buf) == write(set_len(m, h, Len(buf)), indirect(h.slot, h.off), 0, buf)

\* Mutant: the elements of a VLA start at its length.
Element_OnLength(h, idx) ==
  LET p == h.path \o (IF h.ty.kind = "array" THEN <<idx + 1>> ELSE <<"of", idx + 1>>) IN
  CASE h.ty.kind = "array" -> HandleAt(h.ty.of, h.slot, h.off + idx * SizeOf(h.ty.of), p)
    [] h.ty.kind = "dyn"   -> HandleAt(h.ty.of, indirect(h.slot, h.off), idx * SizeOf(h.ty.of), p)
    [] h.ty.kind = "vla"   -> HandleAt(h.ty.of, h.slot, h.off + idx * SizeOf(h.ty.of), p)

\* The element a collection has, or would have if it were longer, at a 0-based index.
Element(h, idx) ==
  LET p == h.path \o (IF h.ty.kind = "array" THEN <<idx + 1>> ELSE <<"of", idx + 1>>) IN
  CASE h.ty.kind = "array" -> HandleAt(h.ty.of, h.slot, h.off + idx * SizeOf(h.ty.of), p)
    [] h.ty.kind = "dyn"   -> HandleAt(h.ty.of, indirect(h.slot, h.off), idx * SizeOf(h.ty.of), p)
    [] h.ty.kind = "vla"   -> HandleAt(h.ty.of, h.slot, h.off + 4 + idx * SizeOf(h.ty.of), p)

\* The field accessors of record!.
Field(h, i) ==
  HandleAt(h.ty.fields[i], h.slot, h.off + SizeOf(RecTy(SubSeq(h.ty.fields, 1, i - 1))),
           Append(h.path, i))

Deref(h) == HandleAt(h.ty.of, indirect(h.slot, h.off), 0, h.path)

(*----- whole values ------------------------------------------------------*)

\* What a contract finds when it reads everything under a handle, and, beyond the length
\* of a collection, what it would find in elements a greater length uncovers.
RECURSIVE Value(_, _)
Value(m, h) ==
  CASE h.ty.kind = "int"   -> GetInt(m, h)
    [] h.ty.kind = "bool"  -> GetBool(m, h)
    [] h.ty.kind = "str"   -> load(m, h)
    [] h.ty.kind = "ind"   -> Value(m, Deref(h))
    [] h.ty.kind = "array" -> [i \in 1 .. h.ty.n |-> Value(m, Element(h, i - 1))]
    [] h.ty.kind \in {"dyn", "vla"} ->
         [n |-> len_(m, h), of |-> [i \in 1 .. MaxElems |-> Value(m, Element(h, i - 1))]]
    [] h.ty.kind = "rec"   -> [i \in DOMAIN h.ty.fields |-> Value(m, Field(h, i))]

\* Every handle a contract can reach without passing an index assertion's bound.
RECURSIVE Handles(_, _)
Handles(m, h) ==
  {h} \cup
  CASE h.ty.kind \in {"int", "bool", "str"} -> {}
    [] h.ty.kind = "ind"   -> Handles(m, Deref(h))
    [] h.ty.kind = "array" -> UNION {Handles(m, Element(h, i)) : i \in 0 .. h.ty.n - 1}
    [] h.ty.kind \in {"dyn", "vla"} ->
         UNION {Handles(m, Element(h, i)) : i \in 0 .. len_(m, h) - 1}
    [] h.ty.kind = "rec"   -> UNION {Handles(m, Field(h, i)) : i \in DOMAIN h.ty.fields}

\* Values a contract gives to a scalar or a string (StorageValue::storage_set).
Settable(ty) ==
  CASE ty.kind = "int" -> {v \in Numbers : ty.size > 1 \/ v < 256}
    [] ty.kind = "bool" -> BOOLEAN
    [] ty.kind = "str" -> Strings [] OTHER -> {}

storage_set(m, h, v) ==
  CASE h.ty.kind = "int" -> SetInt(m, h, v) [] h.ty.kind = "bool" -> SetBool(m, h, v)
    [] h.ty.kind = "str" -> store(m, h, v)

RECURSIVE Default(_)
Default(ty) ==
  CASE ty.kind = "int" -> 0 [] ty.kind = "bool" -> FALSE
    [] ty.kind = "str"   -> <<>>
    [] ty.kind \in {"dyn", "vla"} -> [n |-> 0, of |-> [i \in 1 .. MaxElems |-> Default(ty.of)]]
    [] ty.kind = "ind"   -> Default(ty.of)
    [] ty.kind = "array" -> [i \in 1 .. ty.n |-> Default(ty.of)]
    [] ty.kind = "rec"   -> [i \in DOMAIN ty.fields |-> Default(ty.fields[i])]

(*----- Root --------------------------------------------------------------*)

\* major, contract_instance, code, locked_slots, upgraders, code_slot
RootTy == RecTy(<<IntTy(1), IndTy(Contract), IndTy(VlaTy(IntTy(1))), IndTy(VlaTy(U256Ty)),
                  IndTy(VlaTy(AddressTy)), U256Ty>>)
Root == HandleAt(RootTy, <<0>>, 0, <<1>>)
CodeSlotField == Field(Root, 6)

\* A VLA at a slot named by code_slot is the second value of the history.
get_resolved_code(m) ==
  LET s == GetInt(m, CodeSlotField)
  IN IF s = 0 THEN Deref(Field(Root, 3)) ELSE HandleAt(VlaTy(IntTy(1)), <<s>>, 0, <<2, s>>)

(*----- a contract's calls ------------------------------------------------*)

\* The history with v at a path.
RECURSIVE Replaced(_, _, _)
Replaced(old, path, v) ==
  IF path = <<>> THEN v ELSE [old EXCEPT ![Head(path)] = Replaced(@, Tail(path), v)]

RECURSIVE At(_, _)
At(value, path) == IF path = <<>> THEN value ELSE At(value[Head(path)], Tail(path))

LayoutInit ==
  /\ mem = <<>>
  /\ val = <<Default(RootTy), [s \in CodeSlots |-> Default(VlaTy(IntTy(1)))]>>
  /\ writes = 0

Reachable == Handles(mem, Root) \cup {get_resolved_code(mem)}

Put(h, v) ==
  /\ mem' = storage_set(mem, h, v)
  /\ val' = Replaced(val, h.path, v)

\* A contract changes the length of a collection, and no element; the calls below do, and
\* so may the contract itself, to any length.
SetLen(h, n) ==
  /\ mem' = set_len(mem, h, n)
  /\ val' = Replaced(val, Append(h.path, "n"), n)

\* The new element is uninitialised: whether it is ever set is up to the contract.
AppendSlot(h) == len_(mem, h) < MaxElems /\ SetLen(h, len_(mem, h) + 1)

\* DynArray::pop and clear, VLA::truncate.
Shrink(h, to) ==
  /\ h.ty.kind = "dyn" => to \in {0, len_(mem, h) - 1}
  /\ to \in 0 .. len_(mem, h)
  /\ SetLen(h, to)

LayoutNext ==
  /\ writes < MaxWrites
  /\ writes' = writes + 1
  /\ \E h \in Reachable :
       \/ /\ h # CodeSlotField
          /\ \E v \in Settable(h.ty) : Put(h, v)
       \/ h = CodeSlotField /\ \E s \in CodeSlots \cup {0} : Put(h, s)
       \/ /\ h.ty.kind \in {"dyn", "vla"}
          /\ \/ AppendSlot(h)
             \/ \E n \in 0 .. MaxElems : Shrink(h, n) \/ SetLen(h, n)

(*----- properties --------------------------------------------------------*)

\* Whatever was written, grown and shrunk in whatever order, reading everything
\* under the root, and the code at every code slot, gives what the contract put
\* there: no two values share a byte.  An element that was uncovered and not set
\* reads as what the contract last put in that place of that collection, or as
\* zero, and never as bytes of another value.
ReadsWhatWasStored ==
  /\ Value(mem, Root) = val[1]
  /\ \A s \in CodeSlots : Value(mem, HandleAt(VlaTy(IntTy(1)), <<s>>, 0, <<>>)) = val[2][s]
  /\ Value(mem, get_resolved_code(mem)) = At(val, get_resolved_code(mem).path)
=============================================================================
