---------------------------- MODULE KernelRegistry ----------------------------
(* Kernels: the registry of the built-in ones and of those made on demand     *)
(* (c_api.rs), user kernels with their ids and parameters (unified_c_api.rs), *)
(* and the test module.  Each kernel counts its references itself and once    *)
(* more in REFERENCE_COUNTS.                                                  *)
EXTENDS Application, Naturals, FiniteSets, SequencesExt

CONSTANTS Threads,       \* each has a user kernel of its own, named as the thread
          Standard,      \* built-in kernels: their names, and their enumerations
          OnDemand,      \* enumerations that no kernel has
          TestModule,    \* the name of the test module, of its kernel and its enumeration
          MaxKernelId,   \* user kernel ids are 0..MaxKernelId - 1, after VX_KERNEL_BASE
          Indices,       \* indices of parameters
          MaxContexts, MaxMade, MaxIds,  \* bounds: contexts, generated kernels, allocations,
          MaxHeld        \* and kernels a thread holds, each once

ASSUME KernelAssumption ==
    /\ IsFiniteSet(Threads) /\ MaxKernelId \in Nat \ {0} /\ Indices \subseteq Nat \ {0}
    /\ MaxContexts \in Nat /\ MaxMade \in Nat /\ MaxIds \in Nat /\ MaxHeld \in Nat
    /\ Threads \cap ({TestModule, None} \cup Standard) = {} /\ TestModule \notin Standard
    /\ None \notin Nat

VARIABLES contexts, created,   \* CONTEXTS, and how many there have been
          kernels, made,       \* KERNELS, and how many ids generate_id gave to kernels
          counts,              \* REFERENCE_COUNTS of kernels
          user, params,        \* USER_KERNELS, USER_KERNEL_PARAMS
          next, allocated,     \* NEXT_KERNEL_ENUM, and the allocations so far
          pc,                  \* where each thread is in its call
          id,                  \* the id a thread has been given and not yet used
          held,                \* history: what each thread holds, and what it asked for
          declared             \* history: parameters declared for each user kernel

opened == <<contexts, created>>
ids    == <<next, allocated, id>>
users  == <<user, params, declared>>
vars   == <<opened, ids, users, kernels, made, counts, pc, held>>

Idle == [at |-> "idle"]
Empty == [h \in {} |-> None]

Init == /\ contexts = {} /\ created = 0
        /\ kernels = Empty /\ made = 0 /\ counts = Empty
        /\ user = Empty /\ params = Empty /\ declared = Empty
        /\ next = 0 /\ allocated = 0
        /\ pc = [t \in Threads |-> Idle] /\ id = [t \in Threads |-> None]
        /\ held = [t \in Threads |-> {}]

(* Handles.                                                                   *)
BuiltIn(s) == <<"builtin", s>>
Made(n)    == <<"made", n>>
User(i)    == <<"user", i>>

AtRest == \A t \in Threads : pc[t] = Idle
Holders(h) == {t \in Threads : \E k \in held[t] : k.handle = h}

Without(f, D) == Restrict(f, (DOMAIN f) \ D)
\* The entries of g in place of those of f.
With(f, g) == [x \in (DOMAIN f) \cup (DOMAIN g) |-> IF x \in DOMAIN g THEN g[x] ELSE f[x]]
Entry(x, v) == [y \in {x} |-> v]
Count(f, h) == IF h \in DOMAIN f THEN [f EXCEPT ![h] = @ + 1] ELSE f
MayHold(t) == Cardinality(held[t]) < MaxHeld
Hold(t, h, asked) == held' = [held EXCEPT ![t] = @ \cup {[handle |-> h, asked |-> asked]}]
-----------------------------------------------------------------------------
(* Contexts.                                                                  *)

Builtins(c) == [h \in {BuiltIn(s) : s \in Standard} |->
                   [context |-> c, name |-> h[2], enum |-> h[2], count |-> 1]]
\* Fault: a built-in kernel that is in the registry is left as it is.
RegisterMissing(c) == With(Builtins(c), kernels)
register_standard_kernels(c) == With(kernels, Builtins(c))

vxCreateContext ==
    /\ created < MaxContexts
    /\ Careful(contexts = {})
    /\ created' = created + 1 /\ contexts' = contexts \cup {created + 1}
    /\ kernels' = register_standard_kernels(created + 1)
    /\ counts' = With(counts, [h \in DOMAIN Builtins(created + 1) |-> 1])
    /\ UNCHANGED <<ids, users, made, pc, held>>

(* The kernels stay.                                                          *)
vxReleaseContext(c) ==
    /\ Careful(AtRest /\ \A t \in Threads : held[t] = {})
    /\ contexts' = contexts \ {c}
    /\ UNCHANGED <<created, ids, users, kernels, made, counts, pc, held>>
-----------------------------------------------------------------------------
(* Getting and releasing kernels.                                             *)

Named(c, n)  == {h \in DOMAIN kernels : kernels[h].context = c /\ kernels[h].name = n}
WithEnum(c, e) == {h \in DOMAIN kernels : kernels[h].context = c /\ kernels[h].enum = e}

\* Fault: only the unified count is incremented.
ReferUnified(h) == /\ kernels' = kernels
                   /\ counts' = Count(counts, h)
Refer(h) == /\ kernels' = [kernels EXCEPT ![h].count = @ + 1]
            /\ counts' = Count(counts, h)

(* A kernel whose last reference is being released is still in the registry.  *)
Releasing(h) == {u \in Threads : pc[u].at = "releasing" /\ pc[u].handle = h}
BeingReleased(h) == Releasing(h) # {}
BeingFreed(h) == \E u \in Releasing(h) : pc[u].count <= 1
\* As is one that is about to be unloaded with its module.
BeingUnloaded(h) == \E u \in Threads : pc[u].at = "unloading" /\ h \in pc[u].gone

GetRegistered(t, h, asked) ==
    /\ t \notin Holders(h) /\ Careful(~BeingFreed(h) /\ ~BeingUnloaded(h))
    /\ Refer(h) /\ Hold(t, h, asked)
    /\ UNCHANGED <<opened, ids, users, made, pc>>

GetUser(t, i, asked) ==
    /\ t \notin Holders(User(i))
    /\ counts' = IF User(i) \in DOMAIN counts THEN Count(counts, User(i))
                 ELSE With(counts, Entry(User(i), 1))
    /\ Hold(t, User(i), asked)
    /\ UNCHANGED <<opened, ids, users, kernels, made, pc>>

(* User kernels are found from every context.                                 *)
vxGetKernelByName(t, c, n) ==
    /\ pc[t] = Idle /\ MayHold(t)
    /\ IF Named(c, n) # {} THEN \E h \in Named(c, n) : GetRegistered(t, h, n)
       ELSE \E i \in {j \in DOMAIN user : user[j] = n} : GetUser(t, i, n)

vxGetKernelByEnum(t, c, e) ==
    /\ pc[t] = Idle /\ MayHold(t)
    /\ IF WithEnum(c, e) # {} THEN \E h \in WithEnum(c, e) : GetRegistered(t, h, e)
       ELSE /\ made < MaxMade
            /\ pc' = [pc EXCEPT ![t] = [at |-> "making", context |-> c, enum |-> e]]
            /\ UNCHANGED <<opened, ids, users, kernels, made, counts, held>>

Register(c, n, e) ==
    /\ made < MaxMade
    /\ made' = made + 1
    /\ kernels' = With(kernels, Entry(Made(made + 1), [context |-> c, name |-> n, enum |-> e, count |-> 1]))
    /\ counts' = With(counts, Entry(Made(made + 1), 1))

(* The kernel was not there, and is made up.                                  *)
MakeKernel(t) ==
    /\ pc[t].at = "making"
    /\ Register(pc[t].context, None, pc[t].enum)
    /\ Hold(t, Made(made + 1), pc[t].enum)
    /\ pc' = [pc EXCEPT ![t] = Idle]
    /\ UNCHANGED <<opened, ids, users>>

vxReleaseKernel(t, k) ==
    LET h == k.handle
        count == IF h \in DOMAIN kernels THEN kernels[h].count ELSE 0
    IN  /\ pc[t] = Idle
        /\ held' = [held EXCEPT ![t] = @ \ {k}]
        /\ kernels' = IF h \in DOMAIN kernels THEN [kernels EXCEPT ![h].count = count - 1] ELSE kernels
        /\ pc' = [pc EXCEPT ![t] = [at |-> "releasing", handle |-> h, count |-> count]]
        /\ UNCHANGED <<opened, ids, users, made, counts>>

(* The count before the decrement decides, and overwrites the unified count.  *)
EndRelease(t) ==
    LET h == pc[t].handle
        last == pc[t].count <= 1
    IN  /\ pc[t].at = "releasing"
        /\ kernels' = IF last THEN Without(kernels, {h}) ELSE kernels
        /\ counts' = IF last THEN Without(counts, {h})
                     ELSE IF h \in DOMAIN counts THEN [counts EXCEPT ![h] = pc[t].count - 1] ELSE counts
        /\ pc' = [pc EXCEPT ![t] = Idle]
        /\ UNCHANGED <<opened, ids, users, made, held>>
-----------------------------------------------------------------------------
(* The test module; loading it again adds another kernel.                     *)

vxLoadKernels(c) ==
    /\ Register(c, TestModule, TestModule)
    /\ UNCHANGED <<opened, ids, users, pc, held>>

(* The kernels of the module are collected under one hold of the registry     *)
(* and removed under another; one loaded in between stays.                    *)
vxUnloadKernels(t, c) ==
    /\ pc[t] = Idle
    /\ Careful(\A h \in Named(c, TestModule) : Holders(h) = {} /\ ~BeingReleased(h))
    /\ pc' = [pc EXCEPT ![t] = [at |-> "unloading", gone |-> Named(c, TestModule)]]
    /\ UNCHANGED <<opened, ids, users, kernels, made, counts, held>>

EndUnload(t) ==
    /\ pc[t].at = "unloading"
    /\ kernels' = Without(kernels, pc[t].gone)
    /\ counts' = Without(counts, pc[t].gone)
    /\ pc' = [pc EXCEPT ![t] = Idle]
    /\ UNCHANGED <<opened, ids, users, made, held>>
-----------------------------------------------------------------------------
(* User kernels.                                                              *)

Allocating == {t \in Threads : pc[t].at = "allocating"}

(* vxAllocateUserKernelId reads the next id, resets it at the end of the      *)
(* range, and takes one.                                                      *)
vxAllocateUserKernelId(t) ==
    /\ pc[t] = Idle /\ id[t] = None /\ allocated < MaxIds
    /\ Careful(Allocating = {} \/ next + Cardinality(Allocating) < MaxKernelId)
    /\ Careful(next < MaxKernelId \/ (DOMAIN user = {} /\ \A u \in Threads : id[u] = None))
    /\ allocated' = allocated + 1
    /\ pc' = [pc EXCEPT ![t] = [at |-> "allocating", reset |-> next >= MaxKernelId]]
    /\ UNCHANGED <<opened, users, kernels, made, counts, next, id, held>>

ResetIds(t) ==
    /\ pc[t].at = "allocating" /\ pc[t].reset
    /\ next' = 0
    /\ pc' = [pc EXCEPT ![t].reset = FALSE]
    /\ UNCHANGED <<opened, users, kernels, made, counts, allocated, id, held>>

TakeId(t) ==
    /\ pc[t].at = "allocating" /\ ~pc[t].reset
    /\ id' = [id EXCEPT ![t] = next]
    /\ next' = next + 1
    /\ pc' = [pc EXCEPT ![t] = Idle]
    /\ UNCHANGED <<opened, users, kernels, made, counts, allocated, held>>

(* The kernel replaces one of the same enumeration, whose parameters it keeps. *)
vxAddUserKernel(t) ==
    /\ pc[t] = Idle /\ MayHold(t) /\ id[t] # None
    /\ Careful(t \notin {user[i] : i \in DOMAIN user})
    /\ user' = With(user, Entry(id[t], t))
    /\ counts' = With(counts, Entry(User(id[t]), 1))
    /\ declared' = With(declared, Entry(id[t], {}))
    /\ Hold(t, User(id[t]), t)
    /\ id' = [id EXCEPT ![t] = None]
    /\ UNCHANGED <<opened, params, kernels, made, next, allocated, pc>>

(* Parameters before the index that are not declared yet are filled in.       *)
vxAddParameterToKernel(t, i, index) ==
    LET list == IF i \in DOMAIN params THEN params[i] ELSE <<>>
    IN  /\ pc[t] = Idle
        /\ params' = With(params, Entry(i, [j \in 1..Len(list) \cup 1..index |->
                              IF j = index THEN "declared" ELSE IF j <= Len(list) THEN list[j] ELSE "filled"]))
        /\ declared' = [declared EXCEPT ![i] = @ \cup {index}]
        /\ UNCHANGED <<opened, ids, user, kernels, made, counts, pc, held>>

\* Fault: the parameters of the kernel stay.
KeepParams(i) == params' = params
DropParams(i) == params' = Without(params, {i})

vxRemoveKernel(t, i) ==
    /\ pc[t] = Idle /\ i \in DOMAIN user
    /\ Careful(Holders(User(i)) \subseteq {t} /\ ~BeingReleased(User(i)))
    /\ user' = Without(user, {i})
    /\ DropParams(i)
    /\ counts' = Without(counts, {User(i)})
    /\ declared' = Without(declared, {i})
    /\ held' = [held EXCEPT ![t] = {k \in @ : k.handle # User(i)}]
    /\ UNCHANGED <<opened, ids, kernels, made, pc>>

(* vxGetKernelParameterByIndex: what is said of a parameter.                  *)
Described(i, index) ==
    IF i \in DOMAIN params /\ index <= Len(params[i]) THEN params[i][index] ELSE "default"
-----------------------------------------------------------------------------
Next ==
    \/ vxCreateContext
    \/ \E c \in contexts :
          \/ vxReleaseContext(c)
          \/ vxLoadKernels(c)
          \/ \E t \in Threads :
                \/ vxUnloadKernels(t, c)
                \/ \E n \in Standard \cup {TestModule} \cup Threads : vxGetKernelByName(t, c, n)
                \/ \E e \in Standard \cup OnDemand : vxGetKernelByEnum(t, c, e)
    \/ \E t \in Threads :
          \/ MakeKernel(t) \/ EndRelease(t) \/ EndUnload(t)
          \/ \E k \in held[t] : vxReleaseKernel(t, k)
          \/ contexts # {} /\ (vxAllocateUserKernelId(t) \/ vxAddUserKernel(t))
          \/ ResetIds(t) \/ TakeId(t)
          \/ \E i \in DOMAIN user : t \in Holders(User(i)) /\
                (vxRemoveKernel(t, i) \/ \E index \in Indices : vxAddParameterToKernel(t, i, index))

Spec == Init /\ [][Next]_vars
-----------------------------------------------------------------------------
HeldKernelsAreFound ==
    \A t \in Threads : \A k \in held[t] :
        IF k.handle[1] = "user" THEN /\ k.handle[2] \in DOMAIN user
                                     /\ user[k.handle[2]] = k.asked
        ELSE /\ k.handle \in DOMAIN kernels
             /\ k.asked \in {kernels[k.handle].name, kernels[k.handle].enum}

BuiltinsAreFound == \A c \in contexts, s \in Standard : Named(c, s) # {} /\ WithEnum(c, s) # {}

(* A kernel that a thread holds is in the registry, as what it asked for:     *)
(* neither releases by others nor user kernels added by others take it away.  *)
(* And every context finds the built-in kernels, also one created after       *)
(* another was released, with kernels got and released in any number.         *)
KernelsAreFound == HeldKernelsAreFound /\ BuiltinsAreFound

(* What the API says of a user kernel's parameters is what was declared for   *)
(* that kernel, also when its id was given to another one before.             *)
ParametersAsDeclared ==
    \A i \in DOMAIN user, index \in Indices :
        Described(i, index) = "declared" <=> index \in declared[i]
=============================================================================
