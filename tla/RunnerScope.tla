---------------------------- MODULE RunnerScope ----------------------------
(***************************************************************************)
(* How a VM gets its code: rt/supervisor/actions.rs resolves and loads     *)
(* runner archives and walks their init actions, runners/cache.rs shares   *)
(* the archives between VMs, and gl_call's RegisterRunner, MapFile,        *)
(* sandbox, CallContract and run_nondet decide which custom runners a VM   *)
(* may name.                                                               *)
(*                                                                         *)
(* Deterministic VMs run one at a time: a parent waits for its child.  A   *)
(* validator's nondeterministic VMs run beside them and meet them in the   *)
(* registry, the cache and the cells; the leader's is the interleaving in  *)
(* which it runs at once.                                                  *)
(***************************************************************************)
EXTENDS Integers, SequencesExt

CONSTANTS
    Ids,         \* canonical runner ids
    Kind,        \* disk, chain or custom, of each id
    Size,        \* Archive.total_size of each id
    InitActions, \* the actions of these files, and the actions inside them
    Actions,     \* runner.json of each id, an InitAction
    MainId,      \* the runner of the transaction's contract
    CodeSize,    \* what read_code_at charges for a chain runner
    FileMapping, \* memory_limiter_consts::FILE_MAPPING, with the path
    Memory,      \* what the limiter of deterministic VMs, and the other one, start with
    MaxVms,      \* bound: VMs started in a run
    MaxNondet    \* bound: nondeterministic blocks, one per processor

(* An InitAction: its kind, the runner and the mode it names, and the      *)
(* actions inside it.  LinkWasm, AddEnv and SetArgs are left out: they     *)
(* touch neither scopes nor archives, and can fail, as any action can.     *)
Act(op, id, det, acts) == [op |-> op, id |-> id, det |-> det, acts |-> acts]
MapFile == Act("map", "contract", TRUE, <<>>)
StartWasm == Act("start", "contract", TRUE, <<>>)
Depends(id) == Act("depends", id, TRUE, <<>>)
With(id, action) == Act("with", id, TRUE, <<action>>)
When(det, action) == Act("when", "contract", det, <<action>>)
Seqn(acts) == Act("seq", "contract", TRUE, acts)

ASSUME RunnersAssumption ==
    /\ MainId \in Ids /\ Kind \in [Ids -> {"disk", "chain", "custom"}]
    /\ Kind[MainId] = "chain"
    /\ Size \in [Ids -> Nat] /\ CodeSize \in Nat /\ FileMapping \in Nat
    /\ Memory \in [BOOLEAN -> Nat] /\ MaxVms \in Nat \ {0} /\ MaxNondet \in Nat
    /\ \A a \in InitActions :
        /\ a.op \in {"map", "start", "depends", "with", "when", "seq"} /\ a.det \in BOOLEAN
        /\ a.id \in Ids \cup {"contract"} /\ a.acts \in Seq(InitActions)
    /\ Actions \in [Ids -> InitActions]

Customs == {id \in Ids : Kind[id] = "custom"}

VARIABLES
    vms,        \* the VMs in the order they were started
    registry,   \* Supervisor.custom_runners
    cell,       \* CacheMap: a VM filling the OnceCell of an id, or None or Ready
    mem,        \* what is left to the limiters, det and nondet
    by          \* history: the VMs that registered each custom runner

vars == <<vms, registry, cell, mem, by>>

None == 0
Ready == -1
Live(v) == vms[v].at # "gone"

(* A VM: its SingleVMData, its Ctx while the actions are walked, the       *)
(* archive it is waiting for (want; then is what follows in the walk) and  *)
(* what its own limiter has consumed.  given and extra are histories: the  *)
(* archives it was given for its walk, and what else it was charged for.   *)
Vm(kind, parent, det, root, scope, register) ==
    [kind |-> kind, parent |-> parent, det |-> det, root |-> root, scope |-> scope,
     register |-> register, want |-> root, then |-> <<Actions[root]>>, todo |-> <<>>,
     visited |-> {}, own |-> 0, given |-> <<>>, extra |-> 0,
     failed |-> root \in Customs \ scope,   \* load_runner's check
     at |-> IF root \in Customs \ scope THEN "ended" ELSE "fetch"]

Init ==
    /\ \E register \in BOOLEAN :
        vms = <<Vm("main", 0, TRUE, MainId, {}, register)>>
    /\ registry = {}
    /\ cell = [id \in Ids |-> None]
    /\ mem = Memory
    /\ by = [id \in Customs |-> {}]

Set(v, vm) == vms' = [vms EXCEPT ![v] = vm]
Fail(v) == [vms[v] EXCEPT !.at = "ended", !.failed = TRUE]

(* Limiter::consume on the limiter of the VM's mode.                       *)
Fits(v, n) == n <= mem[vms[v].det]
Take(v, n) == mem' = [mem EXCEPT ![vms[v].det] = @ - n]

-----------------------------------------------------------------------------
(* get_arch: Reader::get_or_create over CacheMap::get_or_create.  The      *)
(* OnceCell lets one VM create the archive while the others wait; if it    *)
(* fails the cell is empty again and the next one tries.                   *)

(* The walk's archives are charged to the VM's own limiter, those of the   *)
(* MapFile call to the root limiter, which outlives the VM.                *)
Given(vm, id, extra) ==
    IF vm.at = "fetch"
    THEN [vm EXCEPT !.at = "walk", !.todo = vm.then \o @, !.then = <<>>,
                    !.given = Append(@, id), !.own = @ + Size[id] + extra, !.extra = @ + extra]
    ELSE [vm EXCEPT !.at = "placing"]

Fetching(v) == vms[v].at \in {"fetch", "mapping"}

(* Mutant of FetchCached: who finds the archive ready does not pay for it. *)
FetchCached_Free(v) ==
    LET id == vms[v].want
    IN  /\ Fetching(v) /\ cell[id] = Ready
        /\ Set(v, [Given(vms[v], id, 0) EXCEPT !.own = vms[v].own])
        /\ UNCHANGED <<registry, cell, mem, by>>

FetchCached(v) ==
    LET id == vms[v].want
    IN  /\ Fetching(v) /\ cell[id] = Ready
        /\ \/ Fits(v, Size[id]) /\ Take(v, Size[id]) /\ Set(v, Given(vms[v], id, 0))
           \/ ~Fits(v, Size[id]) /\ Set(v, Fail(v)) /\ UNCHANGED mem
        /\ UNCHANGED <<registry, cell, by>>

FetchBegin(v) ==
    /\ Fetching(v) /\ cell[vms[v].want] = None
    /\ cell' = [cell EXCEPT ![vms[v].want] = v]
    /\ UNCHANGED <<vms, registry, mem, by>>

(* The provider: a disk archive is there; a custom one is if it has been   *)
(* registered; the code of a chain one is charged as it is read.           *)
Provided(id) == Kind[id] = "custom" => id \in registry
ReadCost(id) == IF Kind[id] = "chain" THEN CodeSize ELSE 0

FetchCreate(v) ==
    LET id == vms[v].want
        cost == ReadCost(id) + Size[id]
    IN  /\ Fetching(v) /\ cell[id] = v /\ Provided(id) /\ Fits(v, cost)
        /\ Take(v, cost)
        /\ Set(v, Given(vms[v], id, ReadCost(id)))
        /\ cell' = [cell EXCEPT ![id] = Ready]
        /\ UNCHANGED <<registry, by>>

(* Mutant of FetchFails: a VM that could not fill the cell tries again.    *)
FetchFails_Retries(v) ==
    LET id == vms[v].want
    IN  /\ Fetching(v) /\ cell[id] = v
        /\ ~Provided(id) \/ ~Fits(v, ReadCost(id) + Size[id])
        /\ cell' = [cell EXCEPT ![id] = None]
        /\ UNCHANGED <<vms, registry, mem, by>>

(* No such runner, no memory for the code or for the archive, or code of   *)
(* another major version or that does not parse.  Code that was read stays *)
(* charged until the VM goes (MapFile: for good).                          *)
FetchFails(v) ==
    LET id == vms[v].want
        read == ReadCost(id)
        own == IF vms[v].at = "fetch" THEN read ELSE 0
    IN  /\ Fetching(v) /\ cell[id] = v
        /\ \/ (~Provided(id) \/ ~Fits(v, read) \/ Kind[id] = "chain")
              /\ Set(v, Fail(v)) /\ UNCHANGED mem
           \/ /\ Provided(id) /\ Fits(v, read)
              /\ Kind[id] = "chain" \/ ~Fits(v, read + Size[id])
              /\ Take(v, read)
              /\ Set(v, [Fail(v) EXCEPT !.own = @ + own, !.extra = @ + own])
        /\ cell' = [cell EXCEPT ![id] = None]
        /\ UNCHANGED <<registry, by>>

-----------------------------------------------------------------------------
(* Ctx::apply, one action at a time: todo is what is left of the actions   *)
(* entered so far.  The first StartWasm ends the whole walk.               *)

Resolve(v, id) == IF id = "contract" THEN vms[v].root ELSE id
Next1(v) == Head(vms[v].todo)
Rest(v) == [vms[v] EXCEPT !.todo = Tail(@)]
Fetch(vm, id, then) == [vm EXCEPT !.at = "fetch", !.want = id, !.then = then]
Walking(v, op) == vms[v].at = "walk" /\ vms[v].todo # <<>> /\ Next1(v).op = op

ApplyInner(v) ==
    /\ Walking(v, "seq") \/ Walking(v, "when")
    /\ Set(v, IF Next1(v).op = "when" /\ Next1(v).det # vms[v].det THEN Rest(v)
              ELSE [vms[v] EXCEPT !.todo = Next1(v).acts \o Tail(@)])
    /\ UNCHANGED <<registry, cell, mem, by>>

(* map_archive_file, for the walk and for the MapFile call: charged before *)
(* the file is looked for in the archive.                                  *)
MapArchiveFile(v) ==
    /\ Walking(v, "map") \/ vms[v].at = "placing"
    /\ \/ /\ Fits(v, FileMapping) /\ Take(v, FileMapping)
          /\ IF vms[v].at = "placing"
             THEN Set(v, Fail(v)) \/ Set(v, [vms[v] EXCEPT !.at = "running"])
             ELSE Set(v, [Rest(v) EXCEPT !.own = @ + FileMapping, !.extra = @ + FileMapping])
       \/ ~Fits(v, FileMapping) /\ Set(v, Fail(v)) /\ UNCHANGED mem
    /\ UNCHANGED <<registry, cell, by>>

ApplyWith(v) ==
    /\ Walking(v, "with")
    /\ Set(v, Fetch(Rest(v), Resolve(v, Next1(v).id), Next1(v).acts))
    /\ UNCHANGED <<registry, cell, mem, by>>

ApplyDepends(v) ==
    LET id == Resolve(v, Next1(v).id)
    IN  /\ Walking(v, "depends")
        /\ Set(v, IF id \in vms[v].visited THEN Rest(v)
                  ELSE Fetch([Rest(v) EXCEPT !.visited = @ \cup {id}], id, <<Actions[id]>>))
        /\ UNCHANGED <<registry, cell, mem, by>>

(* StartWasm; or no start instruction, an id that does not resolve, a file *)
(* that is not there, a module that does not link.                         *)
ApplyEnds(v) ==
    /\ \/ Walking(v, "start") /\ Set(v, [vms[v] EXCEPT !.at = "running", !.todo = <<>>])
       \/ vms[v].at = "walk" /\ Set(v, Fail(v))
    /\ UNCHANGED <<registry, cell, mem, by>>

Load(v) ==
    \/ FetchCached(v) \/ FetchBegin(v) \/ FetchCreate(v) \/ FetchFails(v)
    \/ ApplyInner(v) \/ MapArchiveFile(v) \/ ApplyWith(v) \/ ApplyDepends(v) \/ ApplyEnds(v)

-----------------------------------------------------------------------------
(* gl_call.                                                                *)

Running(v) == vms[v].at = "running"
Scoped(v, id) == id \in Customs => id \in vms[v].scope

(* register_runner: parsed and charged, to the root limiter, the first     *)
(* time only; a trap if it does not fit or does not parse.                 *)
RegisterRunner(v) ==
    /\ Running(v) /\ vms[v].det /\ vms[v].register
    /\ \E id \in Customs :
        \/ /\ id \in registry \/ Fits(v, Size[id])
           /\ IF id \in registry THEN UNCHANGED mem ELSE Take(v, Size[id])
           /\ registry' = registry \cup {id}
           /\ by' = [by EXCEPT ![id] = @ \cup {v}]
           /\ Set(v, [vms[v] EXCEPT !.scope = @ \cup {id}])
        \/ /\ id \notin registry
           /\ Set(v, Fail(v))
           /\ UNCHANGED <<registry, mem, by>>
    /\ UNCHANGED cell

(* map_file, until the archive is there.                                   *)
MapRunnerFile(v) ==
    /\ Running(v)
    /\ \E id \in Ids :
        Set(v, IF Scoped(v, id) THEN [vms[v] EXCEPT !.at = "mapping", !.want = id] ELSE Fail(v))
    /\ UNCHANGED <<registry, cell, mem, by>>

Spawn(v, child) ==
    /\ Running(v) /\ Len(vms) < MaxVms
    /\ vms' = Append([vms EXCEPT ![v].at = IF child.kind = "nondet" THEN @ ELSE "waiting"], child)
    /\ UNCHANGED <<registry, cell, mem, by>>

(* Deterministic and nondeterministic VMs alike start sandboxes; the       *)
(* accumulator, and the scope with it, goes to the child.                  *)
Sandbox(v) ==
    \E id \in Ids, allow \in BOOLEAN :
        Spawn(v, Vm("sandbox", v, vms[v].det, id, vms[v].scope, vms[v].register /\ allow))

CallContract(v) ==
    /\ vms[v].det /\ vms[v].kind # "sandbox"
    /\ \E id \in {id \in Ids : Kind[id] = "chain"} :
        Spawn(v, Vm("call", v, TRUE, id, vms[v].scope, vms[v].register))

(* Nothing: the block's accumulator is its own.                            *)
NondetScope(vm) == {}

RunNondet(v) ==
    /\ vms[v].det /\ vms[v].kind # "sandbox"
    /\ Cardinality({w \in DOMAIN vms : vms[w].kind = "nondet"}) < MaxNondet
    /\ Spawn(v, Vm("nondet", v, FALSE, vms[v].root, NondetScope(vms[v]), FALSE))

End(v) ==
    /\ Running(v)
    /\ \E failed \in BOOLEAN : Set(v, [vms[v] EXCEPT !.at = "ended", !.failed = failed])
    /\ UNCHANGED <<registry, cell, mem, by>>

(* Mutant of ScopeAfter: a called contract's runners come back too.        *)
ScopeAfter_Any(child, vm) == child.scope

(* The accumulator of a sandbox comes back, that of a call is discarded.   *)
ScopeAfter(child, vm) == IF child.kind = "sandbox" THEN child.scope ELSE vm.scope

(* The VM is dropped, its limiter with it, and the parent goes on, or is   *)
(* trapped by a VMError of the contract it called or by an internal error; *)
(* then it keeps the copy of the scope it had.                             *)
Return(v) ==
    LET vm == vms[v]
        parent == vms[vm.parent]
        gone == [vm EXCEPT !.at = "gone", !.own = 0, !.given = <<>>, !.extra = 0, !.visited = {},
                           !.todo = <<>>, !.then = <<>>]
    IN  /\ vm.at = "ended"
        /\ mem' = [mem EXCEPT ![vm.det] = @ + vm.own]
        /\ \/ /\ vm.kind \in {"main", "nondet"}
              /\ Set(v, gone)
           \/ /\ vm.kind \in {"sandbox", "call"} /\ (vm.kind = "call" => ~vm.failed)
              /\ vms' = [vms EXCEPT ![v] = gone, ![vm.parent] =
                            [parent EXCEPT !.scope = ScopeAfter(vm, parent), !.at = "running"]]
           \/ /\ vm.kind \in {"sandbox", "call"} /\ vm.failed
              /\ vms' = [vms EXCEPT ![v] = gone, ![vm.parent] = Fail(vm.parent)]
        /\ UNCHANGED <<registry, cell, by>>

Finished == (\A v \in DOMAIN vms : ~Live(v)) /\ UNCHANGED vars

GlCall(v) ==
    \/ RegisterRunner(v) \/ MapRunnerFile(v) \/ Sandbox(v) \/ CallContract(v) \/ RunNondet(v)
    \/ End(v)

Next ==
    \/ \E v \in DOMAIN vms : Load(v) \/ GlCall(v) \/ Return(v)
    \/ Finished

(* tokio polls every VM that is loading; what guests do is not fair.       *)
Loading(v) == v \in DOMAIN vms /\ vms[v].at \in {"fetch", "mapping", "placing", "walk"}
LoadStep(v) == v \in DOMAIN vms /\ Load(v)
Fairness == \A v \in 1 .. MaxVms : WF_vars(LoadStep(v))

Spec == Init /\ [][Next]_vars
FairSpec == Spec /\ Fairness

-----------------------------------------------------------------------------
(* Properties.                                                             *)

TypeOK ==
    /\ Len(vms) \in 1 .. MaxVms
    /\ \A v \in DOMAIN vms :
        /\ vms[v].at \in {"fetch", "walk", "mapping", "placing", "running", "waiting", "ended", "gone"}
        /\ vms[v].parent \in 0 .. v - 1 /\ vms[v].want \in Ids
        /\ vms[v].scope \subseteq Customs /\ vms[v].visited \subseteq Ids
        /\ vms[v].own \in Nat
    /\ registry \subseteq Customs
    /\ cell \in [Ids -> DOMAIN vms \cup {None, Ready}]
    /\ mem \in [BOOLEAN -> Nat]

(* A custom runner a VM may name is in the registry, also after a          *)
(* registration failed in a sandbox whose accumulator came back: loading   *)
(* it never ends in the internal error "custom runner not found".          *)
ScopeIsRegistered == \A v \in DOMAIN vms : Live(v) => vms[v].scope \subseteq registry

(* Whose accumulator a VM works on: its own, or its parent's in a sandbox; *)
(* and those it inherited from.                                            *)
Owner[v \in DOMAIN vms] == IF vms[v].kind = "sandbox" THEN Owner[vms[v].parent] ELSE v
Lineage[v \in DOMAIN vms] ==
    {Owner[v]} \cup (IF vms[v].kind \in {"main", "nondet"} THEN {} ELSE Lineage[vms[v].parent])

(* A VM may name a custom runner only if it was registered in its own      *)
(* execution scope or in one it inherited from: not by a contract it       *)
(* called, and in a nondeterministic block not at all.                     *)
ScopeIsEarned ==
    \A v \in DOMAIN vms : Live(v) =>
        \A id \in vms[v].scope : \E w \in by[id] : Owner[w] \in Lineage[v]

(* Through every chain of sandboxes, calls and failed registrations a      *)
(* scope names only runners that can be loaded and that it has earned.     *)
ScopesSound == TypeOK /\ ScopeIsRegistered /\ ScopeIsEarned

(* A VM has paid for each archive its walk was given, once, whether it or  *)
(* another VM put it into the cache, and whoever's attempt failed before.  *)
PaysForItsArchives ==
    \A v \in DOMAIN vms : Live(v) =>
        vms[v].own = vms[v].extra + SumFunction([i \in DOMAIN vms[v].given |-> Size[vms[v].given[i]]])

(* Loading ends: cyclic dependencies do not keep a walk going, and a VM    *)
(* that waits for another to fill a cell is not left behind when that one  *)
(* fails.                                                                  *)
LoadingEnds == \A v \in 1 .. MaxVms : Loading(v) ~> ~Loading(v)

(* load_runner: "a `custom:<hash>` is only resolvable by a scope that      *)
(* registered it (or inherited it from a det parent)".                     *)
OnlyScopedRunners ==
    \A v \in DOMAIN vms : \A id \in ToSet(vms[v].given) \cap Customs : id \in vms[v].scope

=============================================================================
