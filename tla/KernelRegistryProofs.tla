------------------------- MODULE KernelRegistryProofs -------------------------
(* What a careful application may rely on, for any number of threads,         *)
(* contexts, kernels and user kernel ids: the kernels it holds and the        *)
(* built-in ones are found, and user kernels have the parameters declared.    *)
EXTENDS KernelRegistry, FiniteSetTheorems, SequenceTheorems, TLAPS

BuiltIns == {BuiltIn(s) : s \in Standard}
MadeUpTo(n) == {Made(j) : j \in 1..n}
Users == {User(i) : i \in Nat}
Handles == BuiltIns \cup {Made(j) : j \in Nat} \cup Users

Kernels == [context : Nat, name : {TestModule, None} \cup Standard,
            enum : {TestModule} \cup Standard \cup OnDemand, count : Nat]

Asked == {TestModule} \cup Standard \cup OnDemand \cup Threads

PcValues == {Idle} \cup [at : {"making"}, context : Nat, enum : Standard \cup OnDemand]
              \cup [at : {"releasing"}, handle : Handles, count : Nat]
              \cup [at : {"unloading"}, gone : SUBSET Handles]
              \cup [at : {"allocating"}, reset : BOOLEAN]

TypeInv ==
    /\ created \in Nat /\ contexts \subseteq {created}
    /\ made \in Nat /\ DOMAIN kernels \subseteq BuiltIns \cup MadeUpTo(made)
    /\ kernels \in [DOMAIN kernels -> Kernels]
    /\ next \in Nat /\ DOMAIN user \subseteq Nat /\ DOMAIN declared = DOMAIN user
    /\ pc \in [Threads -> PcValues] /\ id \in [Threads -> Nat \cup {None}]
    /\ held \in [Threads -> SUBSET [handle : Handles, asked : Asked]]

(* Without a context nobody is doing anything.                                *)
RestInv == contexts = {} => \A t \in Threads : pc[t] = Idle /\ held[t] = {}

(* A thread holds a kernel once, and a kernel counts at least its holders;    *)
(* the built-in ones count the registry too.                                  *)
HeldOnce == \A t \in Threads : \A k, j \in held[t] : k.handle = j.handle => k = j

CountInv == \A h \in DOMAIN kernels :
    kernels[h].count >= Cardinality(Holders(h)) + (IF h \in BuiltIns THEN 1 ELSE 0)

(* The release that will remove a kernel is that of its last holder, and      *)
(* never of a built-in one.                                                   *)
ReleaseInv == \A t \in Threads : pc[t].at = "releasing" =>
    /\ pc[t].handle \in BuiltIns \cup MadeUpTo(made) \cup Users
    /\ pc[t].handle \in BuiltIns => pc[t].count >= 2
    /\ pc[t].handle \notin Users /\ pc[t].count <= 1 => Holders(pc[t].handle) = {}

(* Nobody holds a kernel of a module that is being unloaded.                  *)
UnloadInv == \A t \in Threads : pc[t].at = "unloading" =>
    \A h \in pc[t].gone : h \in MadeUpTo(made) /\ Holders(h) = {}

BuiltInv == \A c \in contexts, s \in Standard :
    /\ BuiltIn(s) \in DOMAIN kernels
    /\ kernels[BuiltIn(s)].context = c
    /\ kernels[BuiltIn(s)].name = s /\ kernels[BuiltIn(s)].enum = s

(* Ids in use and ids given out differ and lie before the next one, until all *)
(* are free and one thread starts again.                                      *)
IdInv ==
    /\ \A i \in DOMAIN user : i < next
    /\ \A t \in Threads : id[t] # None => id[t] < next /\ id[t] \notin DOMAIN user
    /\ \A t, u \in Threads : t # u /\ id[t] # None => id[t] # id[u]

ResetInv == \A t \in Threads : pc[t].at = "allocating" /\ pc[t].reset =>
    /\ next >= MaxKernelId /\ Allocating = {t}
    /\ DOMAIN user = {} /\ \A u \in Threads : id[u] = None

(* The parameters of kernels that are no more are no more.                    *)
ParamInv ==
    /\ DOMAIN params \subseteq DOMAIN user
    /\ \A i \in DOMAIN params : params[i] \in Seq({"declared", "filled"})
    /\ \A i \in DOMAIN user : declared[i] \subseteq Indices

Inv == TypeInv /\ RestInv /\ HeldOnce /\ CountInv /\ ReleaseInv /\ BuiltInv
         /\ UnloadInv /\ HeldKernelsAreFound /\ IdInv /\ ResetInv
-----------------------------------------------------------------------------
(* The handles of the three kinds of kernels differ.                          *)
LEMMA HandleFacts ==
    /\ \A h \in Handles : h[1] = "user" <=> h \in Users
    /\ BuiltIns \cap Users = {}
    /\ \A n : MadeUpTo(n) \cap Users = {} /\ MadeUpTo(n) \cap BuiltIns = {}
    /\ \A n \in Nat : Made(n + 1) \notin MadeUpTo(n)
    /\ \A s \in Standard : BuiltIn(s) \in BuiltIns /\ BuiltIn(s)[2] = s
    /\ \A h \in BuiltIns : h[2] \in Standard /\ BuiltIn(h[2]) = h
    /\ \A i \in Nat : User(i) \in Users /\ User(i)[1] = "user" /\ User(i)[2] = i
    /\ \A h \in Users : h[2] \in Nat /\ User(h[2]) = h
    /\ \A n \in Nat : Made(n) \in Handles /\ Made(n)[1] # "user"
BY DEF Handles, Users, BuiltIns, MadeUpTo, BuiltIn, Made, User

LEMMA BuiltinsFacts ==
    ASSUME NEW c
    PROVE  /\ DOMAIN Builtins(c) = BuiltIns
           /\ \A s \in Standard : Builtins(c)[BuiltIn(s)] =
                  [context |-> c, name |-> s, enum |-> s, count |-> 1]
BY HandleFacts DEF Builtins, BuiltIns, BuiltIn
-----------------------------------------------------------------------------
(* The steps of the registry, the two ways of asking for a kernel together.   *)
FindKernel(t) ==
    \E h \in DOMAIN kernels, asked \in Asked :
        /\ contexts # {} /\ pc[t] = Idle /\ asked \in {kernels[h].name, kernels[h].enum}
        /\ GetRegistered(t, h, asked)

FindUserKernel(t) ==
    \E i \in DOMAIN user : contexts # {} /\ user[i] \in Asked /\ pc[t] = Idle /\ GetUser(t, i, user[i])

FindNone(t) ==
    \E c \in contexts, e \in Standard \cup OnDemand :
        /\ pc[t] = Idle
        /\ pc' = [pc EXCEPT ![t] = [at |-> "making", context |-> c, enum |-> e]]
        /\ UNCHANGED <<opened, ids, users, kernels, made, counts, held>>

ContextStep == \/ vxCreateContext
               \/ \E c \in contexts : vxReleaseContext(c) \/ vxLoadKernels(c)

KernelStep(t) == \/ FindKernel(t) \/ FindUserKernel(t) \/ FindNone(t)
                 \/ MakeKernel(t) \/ EndRelease(t)
                 \/ \E k \in held[t] : vxReleaseKernel(t, k)
                 \/ (\E c \in contexts : vxUnloadKernels(t, c)) \/ EndUnload(t)

UserStep(t) == \/ contexts # {} /\ (vxAllocateUserKernelId(t) \/ vxAddUserKernel(t))
               \/ ResetIds(t) \/ TakeId(t)
               \/ \E i \in DOMAIN user : t \in Holders(User(i)) /\
                      (vxRemoveKernel(t, i) \/ \E index \in Indices : vxAddParameterToKernel(t, i, index))

LEMMA Steps ==
    ASSUME Next
    PROVE  \/ ContextStep
           \/ \E t \in Threads : KernelStep(t)
           \/ \E t \in Threads : UserStep(t)
<1>1. ASSUME NEW c \in contexts, NEW t \in Threads,
             NEW n \in Standard \cup {TestModule} \cup Threads, vxGetKernelByName(t, c, n)
      PROVE  FindKernel(t) \/ FindUserKernel(t)
    <2>1. ASSUME NEW h \in Named(c, n), GetRegistered(t, h, n)  PROVE FindKernel(t)
        BY <1>1, <2>1 DEF FindKernel, Named, Asked, vxGetKernelByName
    <2>2. ASSUME NEW i \in DOMAIN user, user[i] = n, GetUser(t, i, n)  PROVE FindUserKernel(t)
        BY <1>1, <2>2 DEF FindUserKernel, Asked, vxGetKernelByName
    <2> QED  BY <1>1, <2>1, <2>2 DEF vxGetKernelByName
<1>2. ASSUME NEW c \in contexts, NEW t \in Threads,
             NEW e \in Standard \cup OnDemand, vxGetKernelByEnum(t, c, e)
      PROVE  FindKernel(t) \/ FindNone(t)
    <2>1. ASSUME NEW h \in WithEnum(c, e), GetRegistered(t, h, e)  PROVE FindKernel(t)
        BY <1>2, <2>1 DEF FindKernel, WithEnum, Asked, vxGetKernelByEnum
    <2> QED  BY <1>2, <2>1 DEF vxGetKernelByEnum, FindNone
<1> QED  BY <1>1, <1>2, Zenon DEF Next, ContextStep, KernelStep, UserStep
-----------------------------------------------------------------------------
(* The kernels a step of the registry leaves, and what threads hold after it. *)
LEMMA TypeStep ==
    ASSUME ~Anything, Inv, Next
    PROVE  TypeInv'
<1> USE KernelAssumption
<1> DEFINE Registry == made \in Nat /\ DOMAIN kernels \subseteq BuiltIns \cup MadeUpTo(made)
                          /\ kernels \in [DOMAIN kernels -> Kernels]
<1> DEFINE Rest == /\ created \in Nat /\ contexts \subseteq {created}
                   /\ next \in Nat /\ DOMAIN user \subseteq Nat /\ DOMAIN declared = DOMAIN user
                   /\ pc \in [Threads -> PcValues] /\ id \in [Threads -> Nat \cup {None}]
                   /\ held \in [Threads -> SUBSET [handle : Handles, asked : Asked]]
<1>0. Registry /\ Rest
    BY DEF Inv, TypeInv
<1>m. \A n \in Nat : MadeUpTo(n) \subseteq MadeUpTo(n + 1) /\ Made(n + 1) \in MadeUpTo(n + 1)
    BY DEF MadeUpTo
<1>r. ASSUME NEW c \in Nat, NEW n \in {TestModule, None} \cup Standard,
             NEW e \in {TestModule} \cup Standard \cup OnDemand, Register(c, n, e)
      PROVE  Registry'
    BY <1>0, <1>m, <1>r DEF Register, With, Entry, Kernels
<1>w. ASSUME NEW D, kernels' = Without(kernels, D), made' = made
      PROVE  Registry'
    BY <1>0, <1>w DEF Without, Restrict
<1>d. ASSUME NEW h \in DOMAIN kernels, NEW n \in Nat, kernels' = [kernels EXCEPT ![h].count = n],
             made' = made
      PROVE  Registry'
    BY <1>0, <1>d DEF Kernels
<1>h. \A h \in DOMAIN kernels : h \in Handles /\ kernels[h].count \in Nat
    BY <1>0 DEF Handles, Kernels, MadeUpTo
<1>1. CASE ContextStep
    <2>1. CASE vxCreateContext
        <3>0. \A h \in BuiltIns : Builtins(created + 1)[h] \in Kernels
            BY <1>0, HandleFacts DEF Builtins, BuiltIns, Kernels
        <3>1. \A h \in BuiltIns : kernels'[h] \in Kernels
            BY <2>1, <3>0, BuiltinsFacts DEF vxCreateContext, register_standard_kernels, With
        <3>2. Registry'
            BY <1>0, <2>1, <3>1, BuiltinsFacts
               DEF vxCreateContext, register_standard_kernels, With
        <3>3. Rest'
            BY <1>0, <2>1 DEF vxCreateContext, ids, users, Careful
        <3> QED  BY <3>2, <3>3 DEF TypeInv
    <2>2. ASSUME NEW c \in contexts, vxReleaseContext(c)  PROVE TypeInv'
        BY <1>0, <2>2 DEF vxReleaseContext, ids, users, TypeInv
    <2>3. ASSUME NEW c \in contexts, vxLoadKernels(c)  PROVE TypeInv'
        <3>1. Registry'
            BY <1>0, <1>r, <2>3 DEF vxLoadKernels
        <3> QED  BY <1>0, <2>3, <3>1 DEF vxLoadKernels, opened, ids, users, TypeInv
    <2> QED  BY <1>1, <2>1, <2>2, <2>3 DEF ContextStep
<1>2. ASSUME NEW t \in Threads, KernelStep(t)  PROVE TypeInv'
    <2>1. CASE FindKernel(t)
        <3> PICK h \in DOMAIN kernels, asked \in Asked : GetRegistered(t, h, asked)
            BY <2>1 DEF FindKernel
        <3>1. Registry'
            <4>1. kernels[h].count + 1 \in Nat
                BY <1>h
            <4> QED  BY <1>d, <4>1 DEF GetRegistered, Refer
        <3> QED  BY <1>0, <1>h, <3>1 DEF GetRegistered, Hold, opened, ids, users, TypeInv
    <2>2. CASE FindUserKernel(t)
        <3> PICK i \in DOMAIN user : user[i] \in Asked /\ GetUser(t, i, user[i])
            BY <2>2 DEF FindUserKernel
        <3>1. User(i) \in Handles
            BY <1>0 DEF Handles, Users
        <3> QED  BY <1>0, <3>1 DEF GetUser, Hold, opened, ids, users, TypeInv
    <2>3. CASE FindNone(t)
        BY <1>0, <2>3 DEF FindNone, opened, ids, users, TypeInv, PcValues
    <2>4. CASE MakeKernel(t)
        <3>1. pc[t].context \in Nat /\ pc[t].enum \in Standard \cup OnDemand
            BY <1>0, <2>4 DEF MakeKernel, PcValues, Idle
        <3>2. Registry'
            BY <1>r, <2>4, <3>1 DEF MakeKernel
        <3>3. [handle |-> Made(made + 1), asked |-> pc[t].enum] \in [handle : Handles, asked : Asked]
            BY <1>0, <3>1, HandleFacts DEF Asked
        <3>4. held' \in [Threads -> SUBSET [handle : Handles, asked : Asked]]
            BY <1>0, <2>4, <3>3 DEF MakeKernel, Hold
        <3>5. pc' \in [Threads -> PcValues]
            BY <1>0, <2>4 DEF MakeKernel, PcValues
        <3> QED  BY <1>0, <2>4, <3>2, <3>4, <3>5 DEF MakeKernel, opened, ids, users, TypeInv
    <2>5. CASE EndRelease(t)
        <3>1. Registry'
            BY <1>0, <1>w, <2>5 DEF EndRelease
        <3> QED  BY <1>0, <2>5, <3>1 DEF EndRelease, PcValues, opened, ids, users, TypeInv
    <2>6. ASSUME NEW k \in held[t], vxReleaseKernel(t, k)  PROVE TypeInv'
        <3> DEFINE count == IF k.handle \in DOMAIN kernels THEN kernels[k.handle].count ELSE 0
        <3>1. k.handle \in Handles
            BY <1>0
        <3>2. k.handle \in DOMAIN kernels => count - 1 \in Nat
            <4>1. k.handle \in DOMAIN kernels => Cardinality(Holders(k.handle)) >= 1
                <5>1. IsFiniteSet(Holders(k.handle)) /\ t \in Holders(k.handle)
                    BY FS_Subset DEF Holders
                <5> QED  BY <5>1, FS_EmptySet, FS_CardinalityType
            <4>2. Cardinality(Holders(k.handle)) \in Nat
                BY FS_Subset, FS_CardinalityType DEF Holders
            <4> QED  BY <1>h, <4>1, <4>2 DEF Inv, CountInv
        <3>3. Registry'
            BY <1>0, <1>d, <2>6, <3>2 DEF vxReleaseKernel
        <3>4. pc' \in [Threads -> PcValues]
            BY <1>0, <1>h, <2>6, <3>1 DEF vxReleaseKernel, PcValues
        <3> QED  BY <1>0, <2>6, <3>3, <3>4 DEF vxReleaseKernel, opened, ids, users, TypeInv
    <2>7. ASSUME NEW c \in contexts, vxUnloadKernels(t, c)  PROVE TypeInv'
        <3>1. Named(c, TestModule) \in SUBSET Handles
            BY <1>h DEF Named
        <3>2. pc' \in [Threads -> PcValues]
            BY <1>0, <2>7, <3>1 DEF vxUnloadKernels, PcValues
        <3> QED  BY <1>0, <2>7, <3>2 DEF vxUnloadKernels, opened, ids, users, TypeInv
    <2>8. CASE EndUnload(t)
        <3>1. Registry'
            BY <1>w, <2>8 DEF EndUnload
        <3> QED  BY <1>0, <2>8, <3>1 DEF EndUnload, PcValues, opened, ids, users, TypeInv
    <2> QED  BY <1>2, <2>1, <2>2, <2>3, <2>4, <2>5, <2>6, <2>7, <2>8 DEF KernelStep
<1>3. ASSUME NEW t \in Threads, UserStep(t)  PROVE TypeInv'
    <2>1. CASE vxAllocateUserKernelId(t)
        <3>1. pc' \in [Threads -> PcValues]
            BY <1>0, <2>1 DEF vxAllocateUserKernelId, PcValues
        <3> QED  BY <1>0, <2>1, <3>1 DEF vxAllocateUserKernelId, opened, users, TypeInv
    <2>2. CASE ResetIds(t)
        <3>1. pc' \in [Threads -> PcValues]
            <4>1. pc[t] \in PcValues /\ pc[t].at = "allocating" /\ pc[t].reset
                BY <1>0, <2>2 DEF ResetIds, TypeInv
            <4>2. pc[t] \in [at : {"allocating"}, reset : BOOLEAN]
                BY <4>1 DEF PcValues, Idle
            <4>3. [pc[t] EXCEPT !.reset = FALSE] \in [at : {"allocating"}, reset : BOOLEAN]
                BY <4>2
            <4>4. [pc[t] EXCEPT !.reset = FALSE] \in PcValues
                BY <4>3 DEF PcValues
            <4> QED  BY <1>0, <2>2, <4>4 DEF ResetIds, TypeInv
        <3> QED  BY <1>0, <2>2, <3>1 DEF ResetIds, opened, users, TypeInv
    <2>3. CASE TakeId(t)
        <3>1. pc' \in [Threads -> PcValues]
            BY <1>0, <2>3 DEF TakeId, PcValues
        <3> QED  BY <1>0, <2>3, <3>1 DEF TakeId, opened, users, TypeInv
    <2>4. CASE vxAddUserKernel(t)
        <3>1. id[t] \in Nat
            BY <1>0, <2>4 DEF vxAddUserKernel
        <3>2. DOMAIN user' \subseteq Nat /\ DOMAIN declared' = DOMAIN user'
            BY <1>0, <2>4, <3>1 DEF vxAddUserKernel, With, Entry
        <3>3. [handle |-> User(id[t]), asked |-> t] \in [handle : Handles, asked : Asked]
            BY <3>1 DEF Handles, Users, Asked
        <3>4. held' \in [Threads -> SUBSET [handle : Handles, asked : Asked]]
            BY <1>0, <2>4, <3>3 DEF vxAddUserKernel, Hold
        <3> QED  BY <1>0, <2>4, <3>2, <3>4 DEF vxAddUserKernel, opened, TypeInv
    <2>5. ASSUME NEW i \in DOMAIN user, vxRemoveKernel(t, i)  PROVE TypeInv'
        <3>1. DOMAIN user' \subseteq Nat /\ DOMAIN declared' = DOMAIN user'
            BY <1>0, <2>5 DEF vxRemoveKernel, Without, Restrict
        <3> QED  BY <1>0, <2>5, <3>1 DEF vxRemoveKernel, opened, ids, TypeInv
    <2>6. ASSUME NEW i \in DOMAIN user, NEW index \in Indices, vxAddParameterToKernel(t, i, index)
          PROVE  TypeInv'
        BY <1>0, <2>6 DEF vxAddParameterToKernel, opened, ids, TypeInv
    <2> QED  BY <1>3, <2>1, <2>2, <2>3, <2>4, <2>5, <2>6 DEF UserStep
<1> QED  BY <1>1, <1>2, <1>3, Steps
-----------------------------------------------------------------------------
(* Who holds a kernel after somebody got or released one.                     *)
LEMMA HoldersFinite ==
    ASSUME NEW h
    PROVE  /\ IsFiniteSet(Holders(h)) /\ Cardinality(Holders(h)) \in Nat
           /\ Holders(h) # {} => Cardinality(Holders(h)) >= 1
<1>1. IsFiniteSet(Holders(h))
    BY KernelAssumption, FS_Subset DEF Holders
<1> QED  BY <1>1, FS_CardinalityType, FS_EmptySet

LEMMA HoldFacts ==
    ASSUME TypeInv, NEW t \in Threads, NEW h, NEW asked, Hold(t, h, asked)
    PROVE  /\ Holders(h)' = Holders(h) \cup {t}
           /\ \A g : g # h => Holders(g)' = Holders(g)
<1> DEFINE new == [handle |-> h, asked |-> asked]
<1>1. \A u \in Threads : held'[u] = IF u = t THEN held[u] \cup {new} ELSE held[u]
    BY DEF TypeInv, Hold
<1>2. new.handle = h
    OBVIOUS
<1> HIDE DEF new
<1>3. ASSUME NEW g, g # h  PROVE Holders(g)' = Holders(g)
    BY <1>1, <1>2, <1>3 DEF Holders
<1>4. Holders(h)' = Holders(h) \cup {t}
    BY <1>1, <1>2 DEF Holders
<1> QED  BY <1>3, <1>4

LEMMA DropFacts ==
    ASSUME TypeInv, HeldOnce, NEW t \in Threads, NEW k \in held[t],
           held' = [held EXCEPT ![t] = @ \ {k}]
    PROVE  /\ Holders(k.handle)' = Holders(k.handle) \ {t}
           /\ \A g : g # k.handle => Holders(g)' = Holders(g)
BY DEF TypeInv, HeldOnce, Holders

(* Nobody holds a kernel that has not been made yet.                          *)
LEMMA NewKernelFacts ==
    ASSUME Inv
    PROVE  /\ Made(made + 1) \notin DOMAIN kernels
           /\ Holders(Made(made + 1)) = {}
           /\ Made(made + 1) \notin BuiltIns \cup Users
           /\ Made(made + 1)[1] # "user"
<1>1. Made(made + 1) \notin DOMAIN kernels /\ Made(made + 1) \notin BuiltIns \cup Users
      /\ Made(made + 1)[1] # "user"
    BY HandleFacts DEF Inv, TypeInv, MadeUpTo, BuiltIns, Users, Made, BuiltIn, User
<1> QED  BY <1>1, HandleFacts DEF Inv, HeldKernelsAreFound, Holders

LEMMA OnceStep ==
    ASSUME ~Anything, Inv, Next
    PROVE  HeldOnce'
<1> USE DEF Inv, HeldOnce
<1>h. ASSUME NEW t \in Threads, NEW h, NEW asked, t \notin Holders(h), Hold(t, h, asked)
      PROVE  HeldOnce'
    BY <1>h DEF TypeInv, Hold, Holders
<1>1. CASE ContextStep
    BY <1>1 DEF ContextStep, vxCreateContext, vxReleaseContext, vxLoadKernels
<1>2. ASSUME NEW t \in Threads, KernelStep(t)  PROVE HeldOnce'
    <2>1. CASE FindKernel(t)
        BY <1>h, <2>1 DEF FindKernel, GetRegistered
    <2>2. CASE FindUserKernel(t)
        BY <1>h, <2>2 DEF FindUserKernel, GetUser
    <2>3. CASE FindNone(t) \/ EndRelease(t)
        BY <2>3 DEF FindNone, EndRelease
    <2>4. CASE MakeKernel(t)
        BY <1>h, <2>4, NewKernelFacts DEF MakeKernel
    <2>5. ASSUME NEW k \in held[t], vxReleaseKernel(t, k)  PROVE HeldOnce'
        BY <2>5 DEF TypeInv, vxReleaseKernel
    <2>6. ASSUME UNCHANGED held  PROVE HeldOnce'
        BY <2>6
    <2> QED  BY <1>2, <2>1, <2>2, <2>3, <2>4, <2>5, <2>6 DEF KernelStep, vxUnloadKernels, EndUnload
<1>3. ASSUME NEW t \in Threads, UserStep(t)  PROVE HeldOnce'
    <2>1. CASE vxAllocateUserKernelId(t) \/ ResetIds(t) \/ TakeId(t)
        BY <2>1 DEF vxAllocateUserKernelId, ResetIds, TakeId
    <2>2. CASE vxAddUserKernel(t)
        <3>1. id[t] \in Nat /\ id[t] \notin DOMAIN user
            BY <2>2 DEF vxAddUserKernel, TypeInv, IdInv
        <3>2. t \notin Holders(User(id[t]))
            BY <3>1 DEF HeldKernelsAreFound, Holders, User
        <3> QED  BY <1>h, <2>2, <3>2 DEF vxAddUserKernel
    <2>3. ASSUME NEW i \in DOMAIN user, vxRemoveKernel(t, i)  PROVE HeldOnce'
        BY <2>3 DEF TypeInv, vxRemoveKernel
    <2>4. ASSUME NEW i \in DOMAIN user, NEW index \in Indices, vxAddParameterToKernel(t, i, index)
          PROVE  HeldOnce'
        BY <2>4 DEF vxAddParameterToKernel
    <2> QED  BY <1>3, <2>1, <2>2, <2>3, <2>4 DEF UserStep
<1> QED  BY <1>1, <1>2, <1>3, Steps

(* The kernels that are held are found after every step.                      *)
LEMMA HeldStep ==
    ASSUME ~Anything, Inv, Next
    PROVE  HeldKernelsAreFound'
<1> USE DEF Inv, HeldKernelsAreFound
<1>k. ASSUME UNCHANGED <<user, held>>,
             \A h \in DOMAIN kernels : Holders(h) # {} =>
                 /\ h \in DOMAIN kernels'
                 /\ kernels'[h].name = kernels[h].name /\ kernels'[h].enum = kernels[h].enum
      PROVE  HeldKernelsAreFound'
    BY <1>k DEF Holders
<1>1. CASE ContextStep
    <2>1. CASE vxCreateContext
        BY <2>1 DEF vxCreateContext, Careful, RestInv
    <2>2. ASSUME NEW c \in contexts, vxReleaseContext(c)  PROVE HeldKernelsAreFound'
        BY <2>2 DEF vxReleaseContext, users
    <2>3. ASSUME NEW c \in contexts, vxLoadKernels(c)  PROVE HeldKernelsAreFound'
        <3>1. \A h \in DOMAIN kernels : h \in DOMAIN kernels' /\ kernels'[h] = kernels[h]
            BY <2>3, NewKernelFacts DEF vxLoadKernels, Register, With, Entry
        <3> QED  BY <1>k, <2>3, <3>1 DEF vxLoadKernels, users
    <2> QED  BY <1>1, <2>1, <2>2, <2>3 DEF ContextStep
<1>2. ASSUME NEW t \in Threads, KernelStep(t)  PROVE HeldKernelsAreFound'
    <2>1. CASE FindKernel(t)
        <3> PICK h \in DOMAIN kernels, asked \in Asked :
                asked \in {kernels[h].name, kernels[h].enum} /\ GetRegistered(t, h, asked)
            BY <2>1 DEF FindKernel
        <3>1. h[1] # "user"
            BY DEF TypeInv, BuiltIns, MadeUpTo, BuiltIn, Made
        <3>2. DOMAIN kernels' = DOMAIN kernels
              /\ \A g \in DOMAIN kernels : kernels'[g].name = kernels[g].name
                                           /\ kernels'[g].enum = kernels[g].enum
            BY DEF GetRegistered, Refer, TypeInv, Kernels
        <3> QED  BY <3>1, <3>2 DEF GetRegistered, Hold, TypeInv, users
    <2>2. CASE FindUserKernel(t)
        BY <2>2 DEF FindUserKernel, GetUser, Hold, TypeInv, User, users
    <2>3. CASE FindNone(t)
        BY <2>3 DEF FindNone, users
    <2>4. CASE MakeKernel(t)
        <3>1. \A h \in DOMAIN kernels : h \in DOMAIN kernels' /\ kernels'[h] = kernels[h]
            BY <2>4, NewKernelFacts DEF MakeKernel, Register, With, Entry
        <3>2. Made(made + 1) \in DOMAIN kernels' /\ kernels'[Made(made + 1)].enum = pc[t].enum
            BY <2>4 DEF MakeKernel, Register, With, Entry
        <3> QED  BY <2>4, <3>1, <3>2, NewKernelFacts DEF MakeKernel, Hold, TypeInv, users
    <2>5. CASE EndRelease(t)
        <3>1. pc[t].handle \in Handles
            BY <2>5, HandleFacts DEF EndRelease, ReleaseInv, Handles, MadeUpTo, TypeInv
        <3>2. \A h \in DOMAIN kernels : h \notin Users
            BY HandleFacts DEF TypeInv
        <3>3. \A h \in DOMAIN kernels : Holders(h) # {} => h \in DOMAIN kernels' /\ kernels'[h] = kernels[h]
            BY <2>5, <3>2 DEF EndRelease, ReleaseInv, Without, Restrict
        <3> QED  BY <1>k, <2>5, <3>3 DEF EndRelease, users
    <2>6. ASSUME NEW k \in held[t], vxReleaseKernel(t, k)  PROVE HeldKernelsAreFound'
        <3>1. DOMAIN kernels' = DOMAIN kernels
              /\ \A g \in DOMAIN kernels : kernels'[g].name = kernels[g].name
                                           /\ kernels'[g].enum = kernels[g].enum
            BY <2>6 DEF vxReleaseKernel, TypeInv, Kernels
        <3> QED  BY <2>6, <3>1 DEF vxReleaseKernel, TypeInv, users
    <2>7. ASSUME NEW c \in contexts, vxUnloadKernels(t, c)  PROVE HeldKernelsAreFound'
        BY <1>k, <2>7 DEF vxUnloadKernels, users
    <2>8. CASE EndUnload(t)
        <3>1. \A h \in DOMAIN kernels : Holders(h) # {} => h \in DOMAIN kernels' /\ kernels'[h] = kernels[h]
            BY <2>8 DEF EndUnload, UnloadInv, Without, Restrict
        <3> QED  BY <1>k, <2>8, <3>1 DEF EndUnload, users
    <2> QED  BY <1>2, <2>1, <2>2, <2>3, <2>4, <2>5, <2>6, <2>7, <2>8 DEF KernelStep
<1>3. ASSUME NEW t \in Threads, UserStep(t)  PROVE HeldKernelsAreFound'
    <2>1. CASE vxAllocateUserKernelId(t) \/ ResetIds(t) \/ TakeId(t)
        BY <2>1 DEF vxAllocateUserKernelId, ResetIds, TakeId, users
    <2>2. CASE vxAddUserKernel(t)
        <3>1. id[t] \in Nat /\ id[t] \notin DOMAIN user
            BY <2>2 DEF vxAddUserKernel, TypeInv, IdInv
        <3>2. /\ \A i \in DOMAIN user : i \in DOMAIN user' /\ user'[i] = user[i]
              /\ id[t] \in DOMAIN user' /\ user'[id[t]] = t
            BY <2>2, <3>1 DEF vxAddUserKernel, With, Entry
        <3> QED  BY <2>2, <3>2 DEF vxAddUserKernel, Hold, TypeInv, User
    <2>3. ASSUME NEW i \in DOMAIN user, vxRemoveKernel(t, i)  PROVE HeldKernelsAreFound'
        <3>1. \A j \in DOMAIN user : j # i => j \in DOMAIN user' /\ user'[j] = user[j]
            BY <2>3 DEF vxRemoveKernel, Without, Restrict
        <3>2. ASSUME NEW u \in Threads, NEW k \in held'[u]
              PROVE  k \in held[u] /\ k.handle # User(i)
            BY <2>3 DEF vxRemoveKernel, TypeInv, Careful, Holders
        <3>3. ASSUME NEW u \in Threads, NEW k \in held'[u], k.handle[1] = "user"
              PROVE  k.handle[2] # i
            <4>1. k.handle \in Users
                BY <3>2, <3>3, HandleFacts DEF TypeInv
            <4> QED  BY <3>2, <4>1, HandleFacts
        <3> QED  BY <2>3, <3>1, <3>2, <3>3 DEF vxRemoveKernel
    <2>4. ASSUME NEW i \in DOMAIN user, NEW index \in Indices, vxAddParameterToKernel(t, i, index)
          PROVE  HeldKernelsAreFound'
        BY <2>4 DEF vxAddParameterToKernel
    <2> QED  BY <1>3, <2>1, <2>2, <2>3, <2>4 DEF UserStep
<1> QED  BY <1>1, <1>2, <1>3, Steps

LEMMA CountStep ==
    ASSUME ~Anything, Inv, Next
    PROVE  CountInv'
<1> DEFINE Reserve(h) == IF h \in BuiltIns THEN 1 ELSE 0
<1> DEFINE Counted(h) == kernels[h].count >= Cardinality(Holders(h)) + Reserve(h)
<1> SUFFICES ASSUME NEW g \in DOMAIN kernels'  PROVE Counted(g)'
    BY DEF CountInv
<1> USE DEF Inv
<1>0. \A h \in DOMAIN kernels : Counted(h) /\ kernels[h].count \in Nat
    BY DEF CountInv, TypeInv, Kernels
<1>k. ASSUME g \in DOMAIN kernels, kernels'[g] = kernels[g], Holders(g)' = Holders(g)
      PROVE  Counted(g)'
    BY <1>0, <1>k
<1>r. ASSUME NEW c, NEW n, NEW e, Register(c, n, e)
      PROVE  /\ g # Made(made + 1) => g \in DOMAIN kernels /\ kernels'[g] = kernels[g]
             /\ g = Made(made + 1) => kernels'[g].count = 1 /\ Reserve(g) = 0
    BY <1>r, NewKernelFacts DEF Register, With, Entry
<1>1. CASE ContextStep
    <2>1. CASE vxCreateContext
        <3>1. Holders(g)' = {}
            BY <2>1 DEF vxCreateContext, Careful, RestInv, Holders
        <3>2. CASE g \in BuiltIns
            <4>1. kernels'[g] = Builtins(created + 1)[g]
                BY <2>1, <3>2, BuiltinsFacts DEF vxCreateContext, register_standard_kernels, With
            <4>2. kernels'[g].count = 1
                BY <3>2, <4>1 DEF Builtins, BuiltIns
            <4> QED  BY <3>1, <4>2, FS_EmptySet
        <3>3. CASE g \notin BuiltIns
            <4>1. g \in DOMAIN kernels /\ kernels'[g] = kernels[g]
                BY <2>1, <3>3, BuiltinsFacts DEF vxCreateContext, register_standard_kernels, With
            <4> QED  BY <1>0, <3>1, <3>3, <4>1, FS_EmptySet
        <3> QED  BY <3>2, <3>3
    <2>2. ASSUME NEW c \in contexts, vxReleaseContext(c)  PROVE Counted(g)'
        BY <1>k, <2>2 DEF vxReleaseContext, Holders
    <2>3. ASSUME NEW c \in contexts, vxLoadKernels(c)  PROVE Counted(g)'
        <3>1. Holders(g)' = Holders(g)
            BY <2>3 DEF vxLoadKernels, Holders
        <3> QED  BY <1>k, <1>r, <2>3, <3>1, NewKernelFacts, FS_EmptySet DEF vxLoadKernels
    <2> QED  BY <1>1, <2>1, <2>2, <2>3 DEF ContextStep
<1>2. ASSUME NEW t \in Threads, KernelStep(t)  PROVE Counted(g)'
    <2>1. CASE FindKernel(t)
        <3> PICK h \in DOMAIN kernels, asked \in Asked : GetRegistered(t, h, asked)
            BY <2>1 DEF FindKernel
        <3>1. t \notin Holders(h) /\ Hold(t, h, asked)
            BY DEF GetRegistered
        <3>2. /\ g \in DOMAIN kernels
              /\ g # h => kernels'[g] = kernels[g]
              /\ g = h => kernels'[g].count = kernels[g].count + 1
            BY <1>0 DEF GetRegistered, Refer, TypeInv, Kernels
        <3>3. Cardinality(Holders(h) \cup {t}) = Cardinality(Holders(h)) + 1
            BY <3>1, HoldersFinite, FS_AddElement
        <3>4. CASE g = h
            <4>1. Cardinality(Holders(g)') = Cardinality(Holders(g)) + 1
                BY <3>1, <3>3, <3>4, HoldFacts
            <4>2. Cardinality(Holders(g)) \in Nat
                BY HoldersFinite
            <4> QED  BY <1>0, <3>2, <3>4, <4>1, <4>2
        <3> QED  BY <1>k, <3>1, <3>2, <3>4, HoldFacts
    <2>2. CASE FindUserKernel(t)
        <3> PICK i \in DOMAIN user : user[i] \in Asked /\ GetUser(t, i, user[i])
            BY <2>2 DEF FindUserKernel
        <3>1. g \in DOMAIN kernels /\ g # User(i)
            BY HandleFacts DEF GetUser, TypeInv
        <3>2. Hold(t, User(i), user[i]) /\ kernels' = kernels
            BY DEF GetUser
        <3> QED  BY <1>k, <3>1, <3>2, HoldFacts
    <2>3. CASE FindNone(t)
        BY <1>k, <2>3 DEF FindNone, Holders
    <2>4. CASE MakeKernel(t)
        <3>1. Hold(t, Made(made + 1), pc[t].enum) /\ Register(pc[t].context, None, pc[t].enum)
            BY <2>4 DEF MakeKernel
        <3>2. CASE g = Made(made + 1)
            <4>1. Holders(g)' = {t}
                BY <3>1, <3>2, HoldFacts, NewKernelFacts
            <4>2. Cardinality(Holders(g)') = 1
                BY <4>1, FS_Singleton
            <4> QED  BY <1>r, <3>1, <3>2, <4>2
        <3> QED  BY <1>k, <1>r, <3>1, <3>2, HoldFacts
    <2>5. CASE EndRelease(t)
        <3>1. g \in DOMAIN kernels /\ kernels'[g] = kernels[g]
            BY <2>5 DEF EndRelease, Without, Restrict
        <3> QED  BY <1>k, <2>5, <3>1 DEF EndRelease, Holders
    <2>6. ASSUME NEW k \in held[t], vxReleaseKernel(t, k)  PROVE Counted(g)'
        <3>1. held' = [held EXCEPT ![t] = @ \ {k}]
            BY <2>6 DEF vxReleaseKernel
        <3>2. /\ g \in DOMAIN kernels
              /\ g # k.handle => kernels'[g] = kernels[g]
              /\ g = k.handle => kernels'[g].count = kernels[g].count - 1
            BY <2>6 DEF vxReleaseKernel, TypeInv, Kernels
        <3>3. t \in Holders(k.handle)
            BY DEF Holders
        <3>4. Cardinality(Holders(k.handle) \ {t}) = Cardinality(Holders(k.handle)) - 1
            BY <3>3, HoldersFinite, FS_RemoveElement
        <3>5. CASE g = k.handle
            <4>1. Cardinality(Holders(g)') = Cardinality(Holders(g)) - 1
                BY <3>1, <3>4, <3>5, DropFacts
            <4>2. Cardinality(Holders(g)) \in Nat
                BY HoldersFinite
            <4> QED  BY <1>0, <3>2, <3>5, <4>1, <4>2
        <3> QED  BY <1>k, <3>1, <3>2, <3>5, DropFacts
    <2>7. ASSUME NEW c \in contexts, vxUnloadKernels(t, c)  PROVE Counted(g)'
        BY <1>k, <2>7 DEF vxUnloadKernels, Holders
    <2>8. CASE EndUnload(t)
        <3>1. g \in DOMAIN kernels /\ kernels'[g] = kernels[g]
            BY <2>8 DEF EndUnload, Without, Restrict
        <3> QED  BY <1>k, <2>8, <3>1 DEF EndUnload, Holders
    <2> QED  BY <1>2, <2>1, <2>2, <2>3, <2>4, <2>5, <2>6, <2>7, <2>8 DEF KernelStep
<1>3. ASSUME NEW t \in Threads, UserStep(t)  PROVE Counted(g)'
    <2>0. kernels' = kernels
        BY <1>3 DEF UserStep, vxAllocateUserKernelId, ResetIds, TakeId, vxAddUserKernel,
                    vxRemoveKernel, vxAddParameterToKernel
    <2>1. CASE UNCHANGED held
        BY <1>k, <2>0, <2>1 DEF Holders
    <2>2. CASE vxAddUserKernel(t)
        <3>1. g # User(id[t]) /\ Hold(t, User(id[t]), t)
            BY <2>0, <2>2, HandleFacts DEF vxAddUserKernel, TypeInv
        <3> QED  BY <1>k, <2>0, <3>1, HoldFacts
    <2>3. ASSUME NEW i \in DOMAIN user, vxRemoveKernel(t, i)  PROVE Counted(g)'
        <3>1. g # User(i)
            BY <2>0, HandleFacts DEF TypeInv
        <3>2. Holders(g)' = Holders(g)
            BY <2>3, <3>1 DEF vxRemoveKernel, Holders, TypeInv
        <3> QED  BY <1>k, <2>0, <3>2
    <2> QED  BY <1>3, <2>1, <2>2, <2>3 DEF UserStep, vxAllocateUserKernelId, ResetIds, TakeId,
                                           vxAddParameterToKernel
<1> QED  BY <1>1, <1>2, <1>3, Steps

LEMMA ReleaseStep ==
    ASSUME ~Anything, Inv, Next
    PROVE  ReleaseInv'
<1> SUFFICES ASSUME NEW u \in Threads, pc'[u].at = "releasing",
                    NEW g, g = pc'[u].handle, NEW n, n = pc'[u].count
             PROVE  /\ g \in BuiltIns \cup MadeUpTo(made') \cup Users
                    /\ g \in BuiltIns => n >= 2
                    /\ g \notin Users /\ n <= 1 => Holders(g)' = {}
    BY DEF ReleaseInv
<1> DEFINE Fine == /\ g \in BuiltIns \cup MadeUpTo(made') \cup Users
                   /\ g \in BuiltIns => n >= 2
                   /\ g \notin Users /\ n <= 1 => Holders(g)' = {}
<1> USE DEF Inv
<1>0. ASSUME pc'[u] = pc[u], MadeUpTo(made) \subseteq MadeUpTo(made'),
             \/ Holders(g)' \subseteq Holders(g)
             \/ g \in Users \/ n > 1
      PROVE  Fine
    <2>1. n \in Nat
        BY <1>0 DEF TypeInv, PcValues, Idle
    <2> QED  BY <1>0, <2>1 DEF ReleaseInv
<1>m. MadeUpTo(made) \subseteq MadeUpTo(made + 1)
    BY DEF TypeInv, MadeUpTo
<1>u. ASSUME NEW t \in Threads, NEW v, pc' = [pc EXCEPT ![t] = v], v.at # "releasing"
      PROVE  u # t /\ pc'[u] = pc[u]
    BY <1>u DEF TypeInv
<1>1. CASE ContextStep
    BY <1>0, <1>1, <1>m DEF ContextStep, vxCreateContext, vxReleaseContext, vxLoadKernels,
                           Register, Holders
<1>2. ASSUME NEW t \in Threads, KernelStep(t)  PROVE Fine
    <2>1. CASE FindKernel(t)
        <3> PICK h \in DOMAIN kernels, asked \in Asked : GetRegistered(t, h, asked)
            BY <2>1 DEF FindKernel
        <3>1. pc'[u] = pc[u] /\ made' = made /\ Hold(t, h, asked) /\ ~BeingFreed(h)
            BY DEF GetRegistered, Careful
        <3>2. CASE g = h
            BY <1>0, <3>1, <3>2 DEF BeingFreed, Releasing, TypeInv, PcValues, Idle
        <3>3. CASE g # h
            BY <1>0, <3>1, <3>3, HoldFacts
        <3> QED  BY <3>2, <3>3
    <2>2. CASE FindUserKernel(t)
        <3> PICK i \in DOMAIN user : GetUser(t, i, user[i])
            BY <2>2 DEF FindUserKernel
        <3>1. pc'[u] = pc[u] /\ made' = made /\ Hold(t, User(i), user[i])
            BY DEF GetUser
        <3>2. User(i) \in Users
            BY HandleFacts DEF TypeInv
        <3> QED  BY <1>0, <3>1, <3>2, HoldFacts
    <2>3. CASE FindNone(t)
        BY <1>0, <1>u, <2>3 DEF FindNone, Holders
    <2>4. CASE MakeKernel(t)
        <3>1. pc'[u] = pc[u] /\ made' = made + 1 /\ Hold(t, Made(made + 1), pc[t].enum)
            BY <1>u, <2>4 DEF MakeKernel, Register, Idle
        <3>2. g # Made(made + 1)
            <4>1. g \in BuiltIns \cup MadeUpTo(made) \cup Users
                BY <3>1 DEF ReleaseInv
            <4>2. Made(made + 1) \notin MadeUpTo(made)
                BY HandleFacts DEF TypeInv
            <4> QED  BY <4>1, <4>2, NewKernelFacts
        <3> QED  BY <1>0, <1>m, <3>1, <3>2, HoldFacts
    <2>5. CASE EndRelease(t)
        BY <1>0, <1>u, <2>5 DEF EndRelease, Idle, Holders
    <2>6. ASSUME NEW k \in held[t], vxReleaseKernel(t, k)  PROVE Fine
        <3>0. held' = [held EXCEPT ![t] = @ \ {k}] /\ made' = made
            BY <2>6 DEF vxReleaseKernel
        <3>1. Holders(k.handle)' = Holders(k.handle) \ {t}
              /\ \A j : j # k.handle => Holders(j)' = Holders(j)
            BY <3>0, DropFacts
        <3>2. CASE u # t
            <4>1. pc'[u] = pc[u]
                BY <2>6, <3>2 DEF vxReleaseKernel, TypeInv
            <4>2. Holders(g)' \subseteq Holders(g)
                BY <3>1
            <4> QED  BY <1>0, <3>0, <4>1, <4>2
        <3>3. CASE u = t
            <4> DEFINE h == k.handle
            <4>1. g = h /\ n = IF h \in DOMAIN kernels THEN kernels[h].count ELSE 0
                BY <2>6, <3>3 DEF vxReleaseKernel, TypeInv
            <4>2. h \in Handles
                BY DEF TypeInv
            <4>3. CASE h \in Users
                BY <3>0, <4>1, <4>3, HandleFacts DEF TypeInv
            <4>4. CASE h \notin Users
                <5>1. h \in DOMAIN kernels
                    BY <4>2, <4>4, HandleFacts DEF HeldKernelsAreFound
                <5>2. h \in BuiltIns \cup MadeUpTo(made)
                    BY <5>1 DEF TypeInv
                <5>3. kernels[h].count \in Nat
                      /\ kernels[h].count >= Cardinality(Holders(h)) + (IF h \in BuiltIns THEN 1 ELSE 0)
                    BY <5>1 DEF CountInv, TypeInv, Kernels
                <5>4. t \in Holders(h)
                    BY DEF Holders
                <5>5. Cardinality(Holders(h)) \in Nat /\ Cardinality(Holders(h)) >= 1
                      /\ IsFiniteSet(Holders(h))
                    BY <5>4, HoldersFinite
                <5>6. kernels[h].count <= 1 => Cardinality(Holders(h)) = 1
                    BY <5>3, <5>5
                <5>7. kernels[h].count <= 1 => Holders(h) \ {t} = {}
                    BY <5>4, <5>5, <5>6, FS_Singleton
                <5>8. h \in BuiltIns => kernels[h].count >= 2
                    BY <5>3, <5>5
                <5>9. kernels[h].count <= 1 => Holders(g)' = {}
                    BY <3>1, <4>1, <5>7
                <5> QED  BY <3>0, <4>1, <5>1, <5>2, <5>8, <5>9
            <4> QED  BY <4>3, <4>4
        <3> QED  BY <3>2, <3>3
    <2>7. ASSUME NEW c \in contexts, vxUnloadKernels(t, c)  PROVE Fine
        BY <1>0, <1>u, <2>7 DEF vxUnloadKernels, Holders
    <2>8. CASE EndUnload(t)
        BY <1>0, <1>u, <2>8 DEF EndUnload, Idle, Holders
    <2> QED  BY <1>2, <2>1, <2>2, <2>3, <2>4, <2>5, <2>6, <2>7, <2>8 DEF KernelStep
<1>3. ASSUME NEW t \in Threads, UserStep(t)  PROVE Fine
    <2>0. made' = made
        BY <1>3 DEF UserStep, vxAllocateUserKernelId, ResetIds, TakeId, vxAddUserKernel,
                    vxRemoveKernel, vxAddParameterToKernel
    <2>1. CASE vxAllocateUserKernelId(t)
        BY <1>0, <1>u, <2>0, <2>1 DEF vxAllocateUserKernelId, Holders
    <2>2. CASE ResetIds(t)
        <3>1. u # t /\ pc'[u] = pc[u]
            BY <2>2 DEF ResetIds, TypeInv, PcValues, Idle
        <3> QED  BY <1>0, <2>0, <2>2, <3>1 DEF ResetIds, Holders
    <2>3. CASE TakeId(t)
        BY <1>0, <1>u, <2>0, <2>3 DEF TakeId, Idle, Holders
    <2>4. CASE vxAddUserKernel(t)
        <3>1. pc'[u] = pc[u] /\ Hold(t, User(id[t]), t)
            BY <2>4 DEF vxAddUserKernel
        <3>2. User(id[t]) \in Users
            BY <2>4, HandleFacts DEF vxAddUserKernel, TypeInv
        <3> QED  BY <1>0, <2>0, <3>1, <3>2, HoldFacts
    <2>5. ASSUME NEW i \in DOMAIN user, vxRemoveKernel(t, i)  PROVE Fine
        <3>1. \A h : Holders(h)' \subseteq Holders(h)
            BY <2>5 DEF vxRemoveKernel, Holders, TypeInv
        <3> QED  BY <1>0, <2>0, <2>5, <3>1 DEF vxRemoveKernel
    <2>6. ASSUME NEW i \in DOMAIN user, NEW index \in Indices, vxAddParameterToKernel(t, i, index)  PROVE Fine
        BY <1>0, <2>0, <2>6 DEF vxAddParameterToKernel, Holders
    <2> QED  BY <1>3, <2>1, <2>2, <2>3, <2>4, <2>5, <2>6 DEF UserStep
<1> QED  BY <1>1, <1>2, <1>3, Steps

(* What is being unloaded was held by nobody when it was collected, and       *)
(* nobody has got it since.                                                   *)
LEMMA UnloadStep ==
    ASSUME ~Anything, Inv, Next
    PROVE  UnloadInv'
<1> SUFFICES ASSUME NEW u \in Threads, pc'[u].at = "unloading", NEW g \in pc'[u].gone
             PROVE  g \in MadeUpTo(made') /\ Holders(g)' = {}
    BY DEF UnloadInv
<1> DEFINE Fine == g \in MadeUpTo(made') /\ Holders(g)' = {}
<1> USE DEF Inv
<1>m. MadeUpTo(made) \subseteq MadeUpTo(made + 1)
    BY DEF TypeInv, MadeUpTo
<1>0. ASSUME pc'[u] = pc[u], made' = made \/ made' = made + 1, Holders(g)' \subseteq Holders(g)
      PROVE  Fine
    BY <1>0, <1>m DEF UnloadInv
<1>u. ASSUME NEW t \in Threads, NEW v, pc' = [pc EXCEPT ![t] = v], v.at # "unloading"
      PROVE  u # t /\ pc'[u] = pc[u]
    BY <1>u DEF TypeInv
<1>1. CASE ContextStep
    BY <1>0, <1>1 DEF ContextStep, vxCreateContext, vxReleaseContext, vxLoadKernels, Register, Holders
<1>2. ASSUME NEW t \in Threads, KernelStep(t)  PROVE Fine
    <2>1. CASE FindKernel(t)
        <3> PICK h \in DOMAIN kernels, asked \in Asked : GetRegistered(t, h, asked)
            BY <2>1 DEF FindKernel
        <3>1. pc'[u] = pc[u] /\ made' = made /\ Hold(t, h, asked) /\ ~BeingUnloaded(h)
            BY DEF GetRegistered, Careful
        <3>2. g # h
            BY <3>1 DEF BeingUnloaded
        <3> QED  BY <1>0, <3>1, <3>2, HoldFacts
    <2>2. CASE FindUserKernel(t)
        <3> PICK i \in DOMAIN user : GetUser(t, i, user[i])
            BY <2>2 DEF FindUserKernel
        <3>1. pc'[u] = pc[u] /\ made' = made /\ Hold(t, User(i), user[i])
            BY DEF GetUser
        <3>2. g \in MadeUpTo(made) /\ User(i) \in Users
            BY <3>1, HandleFacts DEF UnloadInv, TypeInv
        <3>3. g # User(i)
            BY <3>2, HandleFacts
        <3> QED  BY <1>0, <3>1, <3>3, HoldFacts
    <2>3. CASE FindNone(t)
        BY <1>0, <1>u, <2>3 DEF FindNone, Holders
    <2>4. CASE MakeKernel(t)
        <3>1. pc'[u] = pc[u] /\ made' = made + 1 /\ Hold(t, Made(made + 1), pc[t].enum)
            BY <1>u, <2>4 DEF MakeKernel, Register, Idle
        <3>2. g \in MadeUpTo(made) /\ Made(made + 1) \notin MadeUpTo(made)
            BY <3>1, HandleFacts DEF UnloadInv, TypeInv
        <3> QED  BY <1>0, <3>1, <3>2, HoldFacts
    <2>5. CASE EndRelease(t)
        BY <1>0, <1>u, <2>5 DEF EndRelease, Idle, Holders
    <2>6. ASSUME NEW k \in held[t], vxReleaseKernel(t, k)  PROVE Fine
        <3>1. held' = [held EXCEPT ![t] = @ \ {k}] /\ made' = made
            BY <2>6 DEF vxReleaseKernel
        <3>2. Holders(g)' \subseteq Holders(g)
            BY <3>1, DropFacts
        <3>3. pc'[u] = pc[u]
            BY <1>u, <2>6 DEF vxReleaseKernel
        <3> QED  BY <1>0, <3>1, <3>2, <3>3
    <2>7. ASSUME NEW c \in contexts, vxUnloadKernels(t, c)  PROVE Fine
        <3>1. Holders(g)' = Holders(g) /\ made' = made
            BY <2>7 DEF vxUnloadKernels, Holders
        <3>2. CASE u # t
            <4>1. pc'[u] = pc[u]
                BY <2>7, <3>2 DEF vxUnloadKernels, TypeInv
            <4> QED  BY <1>0, <3>1, <4>1
        <3>3. CASE u = t
            <4>1. g \in Named(c, TestModule) /\ Holders(g) = {}
                BY <2>7, <3>3 DEF vxUnloadKernels, Careful, TypeInv
            <4>2. g \notin BuiltIns
                <5>1. \A s \in Standard : kernels[BuiltIn(s)].name = s
                    BY DEF BuiltInv
                <5> QED  BY <4>1, <5>1, KernelAssumption DEF Named, BuiltIns
            <4>3. g \in MadeUpTo(made)
                BY <4>1, <4>2 DEF Named, TypeInv
            <4> QED  BY <3>1, <4>1, <4>3
        <3> QED  BY <3>2, <3>3
    <2>8. CASE EndUnload(t)
        BY <1>0, <1>u, <2>8 DEF EndUnload, Idle, Holders
    <2> QED  BY <1>2, <2>1, <2>2, <2>3, <2>4, <2>5, <2>6, <2>7, <2>8 DEF KernelStep
<1>3. ASSUME NEW t \in Threads, UserStep(t)  PROVE Fine
    <2>0. made' = made
        BY <1>3 DEF UserStep, vxAllocateUserKernelId, ResetIds, TakeId, vxAddUserKernel,
                    vxRemoveKernel, vxAddParameterToKernel
    <2>1. CASE vxAllocateUserKernelId(t)
        BY <1>0, <1>u, <2>0, <2>1 DEF vxAllocateUserKernelId, Holders
    <2>2. CASE ResetIds(t)
        <3>1. u # t /\ pc'[u] = pc[u]
            BY <2>2 DEF ResetIds, TypeInv, PcValues, Idle
        <3> QED  BY <1>0, <2>0, <2>2, <3>1 DEF ResetIds, Holders
    <2>3. CASE TakeId(t)
        BY <1>0, <1>u, <2>0, <2>3 DEF TakeId, Idle, Holders
    <2>4. CASE vxAddUserKernel(t)
        <3>1. pc'[u] = pc[u] /\ Hold(t, User(id[t]), t)
            BY <2>4 DEF vxAddUserKernel
        <3>2. g \in MadeUpTo(made) /\ User(id[t]) \in Users
            BY <2>4, <3>1, HandleFacts DEF vxAddUserKernel, UnloadInv, TypeInv
        <3>3. g # User(id[t])
            BY <3>2, HandleFacts
        <3> QED  BY <1>0, <2>0, <3>1, <3>3, HoldFacts
    <2>5. ASSUME NEW i \in DOMAIN user, vxRemoveKernel(t, i)  PROVE Fine
        <3>1. \A h : Holders(h)' \subseteq Holders(h)
            BY <2>5 DEF vxRemoveKernel, Holders, TypeInv
        <3> QED  BY <1>0, <2>0, <2>5, <3>1 DEF vxRemoveKernel
    <2>6. ASSUME NEW i \in DOMAIN user, NEW index \in Indices, vxAddParameterToKernel(t, i, index)  PROVE Fine
        BY <1>0, <2>0, <2>6 DEF vxAddParameterToKernel, Holders
    <2> QED  BY <1>3, <2>1, <2>2, <2>3, <2>4, <2>5, <2>6 DEF UserStep
<1> QED  BY <1>1, <1>2, <1>3, Steps

LEMMA BuiltStep ==
    ASSUME ~Anything, Inv, Next
    PROVE  BuiltInv'
<1> USE DEF Inv
<1> SUFFICES ASSUME NEW c \in contexts', NEW s \in Standard
             PROVE  /\ BuiltIn(s) \in DOMAIN kernels'
                    /\ kernels'[BuiltIn(s)].context = c
                    /\ kernels'[BuiltIn(s)].name = s /\ kernels'[BuiltIn(s)].enum = s
    BY DEF BuiltInv
<1> DEFINE h == BuiltIn(s)
<1> DEFINE Found == /\ h \in DOMAIN kernels' /\ kernels'[h].context = c
                    /\ kernels'[h].name = s /\ kernels'[h].enum = s
<1>0. h \in BuiltIns /\ h \notin Users
    BY HandleFacts
<1>k. ASSUME contexts' \subseteq contexts,
             h \in DOMAIN kernels => h \in DOMAIN kernels' /\ kernels'[h] = kernels[h]
      PROVE  Found
    BY <1>k DEF BuiltInv
<1>d. ASSUME UNCHANGED contexts, NEW g \in DOMAIN kernels, NEW n,
             kernels' = [kernels EXCEPT ![g].count = n]
      PROVE  Found
    BY <1>d DEF BuiltInv, TypeInv, Kernels
<1> HIDE DEF h
<1>1. CASE ContextStep
    <2>1. CASE vxCreateContext
        <3>1. c = created + 1
            BY <2>1 DEF vxCreateContext, Careful
        <3>2. h \in DOMAIN kernels' /\ kernels'[h] = Builtins(created + 1)[h]
            BY <1>0, <2>1, BuiltinsFacts DEF vxCreateContext, register_standard_kernels, With
        <3>3. Builtins(created + 1)[h] = [context |-> c, name |-> s, enum |-> s, count |-> 1]
            <4>1. h \in {BuiltIn(x) : x \in Standard} /\ h[2] = s
                BY DEF h, BuiltIn
            <4> QED  BY <3>1, <4>1 DEF Builtins
        <3> QED  BY <3>2, <3>3 DEF h
    <2>2. ASSUME NEW d \in contexts, vxReleaseContext(d)  PROVE Found
        BY <1>k, <2>2 DEF vxReleaseContext
    <2>3. ASSUME NEW d \in contexts, vxLoadKernels(d)  PROVE Found
        BY <1>k, <2>3, NewKernelFacts DEF vxLoadKernels, Register, With, Entry, opened
    <2> QED  BY <1>1, <2>1, <2>2, <2>3 DEF ContextStep, h
<1>2. ASSUME NEW t \in Threads, KernelStep(t)  PROVE Found
    <2>1. CASE FindKernel(t)
        BY <1>d, <2>1 DEF FindKernel, GetRegistered, Refer, opened
    <2>2. CASE FindUserKernel(t) \/ FindNone(t)
        BY <1>k, <2>2 DEF FindUserKernel, FindNone, GetUser, opened
    <2>3. CASE MakeKernel(t)
        BY <1>k, <1>0, <2>3, NewKernelFacts DEF MakeKernel, Register, With, Entry, opened
    <2>4. CASE EndRelease(t)
        <3>1. pc[t].count <= 1 => pc[t].handle # h
            <4>1. pc[t].handle = h => pc[t].count >= 2
                BY <1>0, <2>4 DEF EndRelease, ReleaseInv
            <4>2. pc[t].count \in Nat
                BY <2>4 DEF EndRelease, TypeInv, PcValues, Idle
            <4> QED  BY <4>1, <4>2
        <3> QED  BY <1>k, <2>4, <3>1 DEF EndRelease, Without, Restrict, opened
    <2>5. ASSUME NEW k \in held[t], vxReleaseKernel(t, k)  PROVE Found
        BY <1>d, <1>k, <2>5 DEF vxReleaseKernel, opened
    <2>6. ASSUME NEW d \in contexts, vxUnloadKernels(t, d)  PROVE Found
        BY <1>k, <2>6 DEF vxUnloadKernels, opened
    <2>7. CASE EndUnload(t)
        <3>1. h \notin pc[t].gone
            BY <1>0, <2>7, HandleFacts DEF EndUnload, UnloadInv
        <3> QED  BY <1>k, <2>7, <3>1 DEF EndUnload, Without, Restrict, opened
    <2> QED  BY <1>2, <2>1, <2>2, <2>3, <2>4, <2>5, <2>6, <2>7 DEF KernelStep
<1>3. ASSUME NEW t \in Threads, UserStep(t)  PROVE Found
    BY <1>3, <1>k DEF UserStep, vxAllocateUserKernelId, ResetIds, TakeId, vxAddUserKernel,
                      vxRemoveKernel, vxAddParameterToKernel, opened
<1> QED  BY <1>1, <1>2, <1>3, Steps DEF h

LEMMA RestStep ==
    ASSUME ~Anything, Inv, Next
    PROVE  RestInv'
<1> USE DEF Inv, RestInv
<1> SUFFICES ASSUME contexts' = {}  PROVE \A t \in Threads : pc'[t] = Idle /\ held'[t] = {}
    OBVIOUS
<1>1. CASE ContextStep
    BY <1>1 DEF ContextStep, vxCreateContext, vxReleaseContext, vxLoadKernels,
                opened, Careful, AtRest
<1>0. ASSUME UNCHANGED contexts
      PROVE  \A u \in Threads : pc[u].at = "idle" /\ held[u] = {}
    BY <1>0 DEF Idle
<1>2. ASSUME NEW t \in Threads, KernelStep(t)  PROVE FALSE
    <2>1. CASE FindKernel(t) \/ FindUserKernel(t) \/ FindNone(t)
        BY <2>1 DEF FindKernel, GetRegistered, FindUserKernel, GetUser, FindNone, opened
    <2>2. CASE MakeKernel(t) \/ EndRelease(t) \/ EndUnload(t)
        BY <1>0, <2>2 DEF MakeKernel, EndRelease, EndUnload, opened
    <2>3. ASSUME NEW k \in held[t], vxReleaseKernel(t, k)  PROVE FALSE
        BY <1>0, <2>3 DEF vxReleaseKernel, opened
    <2>4. ASSUME NEW c \in contexts, vxUnloadKernels(t, c)  PROVE FALSE
        BY <2>4 DEF vxUnloadKernels, opened
    <2> QED  BY <1>2, <2>1, <2>2, <2>3, <2>4 DEF KernelStep
<1>3. ASSUME NEW t \in Threads, UserStep(t)  PROVE FALSE
    <2>1. CASE contexts # {} /\ (vxAllocateUserKernelId(t) \/ vxAddUserKernel(t))
        BY <2>1 DEF vxAllocateUserKernelId, vxAddUserKernel, opened
    <2>2. CASE ResetIds(t) \/ TakeId(t)
        BY <1>0, <2>2 DEF ResetIds, TakeId, opened
    <2>3. ASSUME NEW i \in DOMAIN user, t \in Holders(User(i)), UNCHANGED opened  PROVE FALSE
        BY <1>0, <2>3 DEF Holders, opened
    <2> QED  BY <1>3, <2>1, <2>2, <2>3 DEF UserStep, vxRemoveKernel, vxAddParameterToKernel
<1> QED  BY <1>1, <1>2, <1>3, Steps

(* Ids of user kernels differ and lie below the next one, and only a thread   *)
(* that allocates alone starts again.                                         *)
LEMMA IdStep ==
    ASSUME ~Anything, Inv, Next
    PROVE  IdInv' /\ ResetInv'
<1> USE DEF Inv
<1>i. ASSUME UNCHANGED <<next, id>>, DOMAIN user' \subseteq DOMAIN user  PROVE IdInv'
    BY <1>i DEF IdInv
<1>r. ASSUME UNCHANGED <<next, id>>, DOMAIN user' \subseteq DOMAIN user,
             \A u \in Threads : /\ pc'[u].at = "allocating" <=> pc[u].at = "allocating"
                                /\ pc'[u].at = "allocating" => pc'[u] = pc[u]
      PROVE  ResetInv'
    BY <1>r DEF ResetInv, Allocating
<1>e. ASSUME NEW t \in Threads, NEW v, pc' = [pc EXCEPT ![t] = v],
             pc[t].at # "allocating", v.at # "allocating"
      PROVE  \A u \in Threads : /\ pc'[u].at = "allocating" <=> pc[u].at = "allocating"
                                /\ pc'[u].at = "allocating" => pc'[u] = pc[u]
    BY <1>e DEF TypeInv
<1>1. CASE ContextStep
    <2>1. UNCHANGED <<next, id, user, pc>>
        BY <1>1 DEF ContextStep, vxCreateContext, vxReleaseContext, vxLoadKernels, ids, users
    <2> QED  BY <1>i, <1>r, <2>1
<1>2. ASSUME NEW t \in Threads, KernelStep(t)  PROVE IdInv' /\ ResetInv'
    <2>1. UNCHANGED <<next, id, user>>
        BY <1>2 DEF KernelStep, FindKernel, GetRegistered, FindUserKernel, GetUser, FindNone,
                    MakeKernel, EndRelease, vxReleaseKernel, vxUnloadKernels, EndUnload, ids, users
    <2>2. CASE FindKernel(t) \/ FindUserKernel(t)
        BY <1>i, <1>r, <2>1, <2>2 DEF FindKernel, GetRegistered, FindUserKernel, GetUser
    <2>3. CASE FindNone(t)
        BY <1>i, <1>r, <1>e, <2>1, <2>3 DEF FindNone, Idle
    <2>4. CASE MakeKernel(t) \/ EndRelease(t)
        BY <1>i, <1>r, <1>e, <2>1, <2>4 DEF MakeKernel, EndRelease, Idle
    <2>5. ASSUME NEW k \in held[t], vxReleaseKernel(t, k)  PROVE IdInv' /\ ResetInv'
        BY <1>i, <1>r, <1>e, <2>1, <2>5 DEF vxReleaseKernel, Idle
    <2>6. ASSUME NEW c \in contexts, vxUnloadKernels(t, c)  PROVE IdInv' /\ ResetInv'
        BY <1>i, <1>r, <1>e, <2>1, <2>6 DEF vxUnloadKernels, Idle
    <2>7. CASE EndUnload(t)
        BY <1>i, <1>r, <1>e, <2>1, <2>7 DEF EndUnload, Idle
    <2> QED  BY <1>2, <2>2, <2>3, <2>4, <2>5, <2>6, <2>7 DEF KernelStep
<1>3. ASSUME NEW t \in Threads, UserStep(t)  PROVE IdInv' /\ ResetInv'
    <2>1. CASE vxAllocateUserKernelId(t)
        <3>1. UNCHANGED <<next, id, user>> /\ \A u \in Threads : u # t => pc'[u] = pc[u]
            BY <2>1 DEF vxAllocateUserKernelId, TypeInv, users
        <3>2. IdInv'
            BY <1>i, <3>1
        <3>3. next \in Nat /\ MaxKernelId \in Nat
            BY KernelAssumption DEF TypeInv
        <3>f. pc'[t].at = "allocating" /\ (next < MaxKernelId => ~pc'[t].reset)
            <4> DEFINE reset == next >= MaxKernelId
            <4>1. pc'[t] = [at |-> "allocating", reset |-> reset]
                BY <2>1, Zenon DEF vxAllocateUserKernelId, TypeInv
            <4>2. next < MaxKernelId => reset = FALSE
                BY <3>3
            <4> HIDE DEF reset
            <4> QED  BY <4>1, <4>2
        <3>4. CASE Allocating # {}
            <4>1. IsFiniteSet(Allocating)
                BY KernelAssumption, FS_Subset DEF Allocating
            <4>2. Cardinality(Allocating) \in Nat
                BY <4>1, FS_CardinalityType
            <4>3. next < MaxKernelId
                BY <2>1, <3>3, <3>4, <4>2 DEF vxAllocateUserKernelId, Careful
            <4>4. \A u \in Threads : ~(pc[u].at = "allocating" /\ pc[u].reset)
                BY <3>3, <4>3 DEF ResetInv
            <4>5. \A u \in Threads : ~(pc'[u].at = "allocating" /\ pc'[u].reset)
                BY <3>1, <3>f, <4>3, <4>4
            <4> QED  BY <3>2, <4>5 DEF ResetInv
        <3>5. CASE Allocating = {}
            <4>1. Allocating' = {t}
                BY <3>1, <3>f, <3>5 DEF Allocating
            <4>2. pc'[t].reset => next >= MaxKernelId /\ DOMAIN user = {} /\ \A u \in Threads : id[u] = None
                <5>1. next < MaxKernelId \/ (DOMAIN user = {} /\ \A u \in Threads : id[u] = None)
                    BY <2>1 DEF vxAllocateUserKernelId, Careful
                <5> QED  BY <3>3, <3>f, <5>1
            <4> QED  BY <3>1, <3>2, <4>1, <4>2 DEF ResetInv, Allocating
        <3> QED  BY <3>4, <3>5
    <2>2. CASE ResetIds(t)
        <3>1. Allocating = {t} /\ DOMAIN user = {} /\ \A u \in Threads : id[u] = None
            BY <2>2 DEF ResetIds, ResetInv
        <3>2. IdInv'
            BY <2>2, <3>1 DEF ResetIds, IdInv, users
        <3>3. ~pc'[t].reset /\ \A u \in Threads : u # t => pc'[u] = pc[u]
            BY <2>2 DEF ResetIds, TypeInv, PcValues, Idle
        <3>4. \A u \in Threads : u # t => pc[u].at # "allocating"
            BY <3>1 DEF Allocating
        <3> QED  BY <3>2, <3>3, <3>4 DEF ResetInv
    <2>3. CASE TakeId(t)
        <3>1. \A u \in Threads : pc[u].at = "allocating" => ~pc[u].reset
            BY <2>3 DEF TakeId, ResetInv, Allocating
        <3>2. \A u \in Threads : pc'[u].at = "allocating" => ~pc'[u].reset
            BY <2>3, <3>1 DEF TakeId, TypeInv, Idle
        <3>3. next \in Nat /\ next' = next + 1 /\ user' = user
              /\ id' = [id EXCEPT ![t] = next] /\ id \in [Threads -> Nat \cup {None}]
            BY <2>3 DEF TakeId, TypeInv, users
        <3>4. \A i \in DOMAIN user : i \in Nat /\ i < next
            BY DEF IdInv, TypeInv
        <3>5. \A u \in Threads : id[u] # None => id[u] \in Nat /\ id[u] < next /\ id[u] \notin DOMAIN user
            BY <3>3 DEF IdInv
        <3>6. (\A i \in DOMAIN user : i < next)'
            BY <3>3, <3>4
        <3>7. (\A u \in Threads : id[u] # None => id[u] < next /\ id[u] \notin DOMAIN user)'
            BY <3>3, <3>4, <3>5
        <3>8. (\A u, w \in Threads : u # w /\ id[u] # None => id[u] # id[w])'
            BY <3>3, <3>5, KernelAssumption DEF IdInv
        <3> QED  BY <3>2, <3>6, <3>7, <3>8 DEF IdInv, ResetInv
    <2>4. CASE vxAddUserKernel(t)
        <3>1. /\ id[t] # None /\ id' = [id EXCEPT ![t] = None] /\ UNCHANGED <<next, pc>>
              /\ DOMAIN user' = (DOMAIN user) \cup {id[t]}
            BY <2>4 DEF vxAddUserKernel, With, Entry
        <3>2. IdInv'
            BY <3>1 DEF IdInv, TypeInv
        <3>3. \A u \in Threads : pc'[u].at = "allocating" => ~pc'[u].reset
            BY <3>1 DEF ResetInv
        <3> QED  BY <3>2, <3>3 DEF ResetInv
    <2>5. ASSUME NEW i \in DOMAIN user, vxRemoveKernel(t, i)  PROVE IdInv' /\ ResetInv'
        <3>1. DOMAIN user' \subseteq DOMAIN user
            BY <2>5 DEF vxRemoveKernel, Without, Restrict
        <3> QED  BY <1>i, <1>r, <2>5, <3>1 DEF vxRemoveKernel, ids
    <2>6. ASSUME NEW i \in DOMAIN user, NEW index \in Indices, vxAddParameterToKernel(t, i, index)
          PROVE  IdInv' /\ ResetInv'
        BY <1>i, <1>r, <2>6 DEF vxAddParameterToKernel, ids
    <2> QED  BY <1>3, <2>1, <2>2, <2>3, <2>4, <2>5, <2>6 DEF UserStep
<1> QED  BY <1>1, <1>2, <1>3, Steps
-----------------------------------------------------------------------------
LEMMA InvInit == Init => Inv
<1> SUFFICES ASSUME Init  PROVE Inv
    OBVIOUS
<1> USE DEF Init, Empty
<1>1. TypeInv
    BY DEF TypeInv, PcValues
<1>2. RestInv /\ HeldOnce /\ HeldKernelsAreFound /\ BuiltInv
    BY DEF RestInv, HeldOnce, HeldKernelsAreFound, BuiltInv
<1>3. CountInv /\ ReleaseInv /\ UnloadInv
    BY DEF CountInv, ReleaseInv, UnloadInv, Idle
<1>4. IdInv /\ ResetInv
    BY DEF IdInv, ResetInv, Idle
<1> QED  BY <1>1, <1>2, <1>3, <1>4 DEF Inv

LEMMA InvStep == ASSUME ~Anything  PROVE Inv /\ [Next]_vars => Inv'
<1>1. ASSUME Inv, Next  PROVE Inv'
    BY <1>1, TypeStep, OnceStep, HeldStep, CountStep, ReleaseStep, UnloadStep, BuiltStep, RestStep, IdStep DEF Inv
<1>2. ASSUME Inv, UNCHANGED vars  PROVE Inv'
    <2> USE <1>2 DEF Inv, vars, opened, ids, users
    <2>1. TypeInv' /\ RestInv' /\ HeldOnce'
        BY DEF TypeInv, RestInv, HeldOnce
    <2>2. CountInv' /\ ReleaseInv' /\ UnloadInv'
        BY DEF CountInv, ReleaseInv, UnloadInv, Holders
    <2>3. BuiltInv' /\ HeldKernelsAreFound'
        BY DEF BuiltInv, HeldKernelsAreFound
    <2>4. IdInv' /\ ResetInv'
        BY DEF IdInv, ResetInv, Allocating
    <2> QED  BY <2>1, <2>2, <2>3, <2>4
<1> QED  BY <1>1, <1>2

(* For a careful application, however many threads, contexts and kernels:     *)
(* the kernels that are held, and the built-in ones, are found.  Contexts     *)
(* take the built-in kernels over, the last release of a kernel removes it    *)
(* in two steps, and ids of user kernels are given out again.                 *)
THEOREM FoundKernels == ASSUME ~Anything PROVE Spec => []KernelsAreFound
<1>1. Inv => KernelsAreFound
    <2>1. Inv => BuiltinsAreFound
        BY DEF Inv, BuiltInv, BuiltinsAreFound, Named, WithEnum
    <2> QED  BY <2>1 DEF Inv, KernelsAreFound
<1> QED  BY <1>1, InvInit, InvStep, PTL DEF Spec

(* A user kernel's parameters are the ones declared for it, with ids that are *)
(* given out again and indices that are declared in any order.                *)
THEOREM DeclaredParameters == ASSUME ~Anything PROVE Spec => []ParametersAsDeclared
<1> DEFINE Params == ParamInv /\ ParametersAsDeclared
<1>1. Init => Params
    BY DEF Init, Empty, ParamInv, ParametersAsDeclared
<1>2. Inv /\ Params /\ [Next]_vars => Params'
    <2> SUFFICES ASSUME Inv, ParamInv, ParametersAsDeclared, [Next]_vars  PROVE Params'
        OBVIOUS
    <2>0. ASSUME UNCHANGED users  PROVE Params'
        BY <2>0 DEF users, ParamInv, ParametersAsDeclared, Described
    <2>1. ASSUME NEW t \in Threads, vxAddUserKernel(t)  PROVE Params'
        <3>1. id[t] \notin DOMAIN user /\ DOMAIN declared = DOMAIN user
            BY <2>1 DEF vxAddUserKernel, Inv, TypeInv, IdInv
        <3>2. /\ params' = params /\ DOMAIN user' = (DOMAIN user) \cup {id[t]}
              /\ declared'[id[t]] = {} /\ \A i \in DOMAIN user : declared'[i] = declared[i]
            BY <2>1, <3>1 DEF vxAddUserKernel, With, Entry
        <3> QED  BY <3>1, <3>2 DEF ParamInv, ParametersAsDeclared, Described
    <2>2. ASSUME NEW t \in Threads, NEW i \in DOMAIN user, vxRemoveKernel(t, i)  PROVE Params'
        <3>1. DOMAIN declared = DOMAIN user
            BY DEF Inv, TypeInv
        <3>2. /\ DOMAIN params' = (DOMAIN params) \ {i} /\ DOMAIN user' = (DOMAIN user) \ {i}
              /\ \A j \in DOMAIN params' : params'[j] = params[j]
              /\ \A j \in DOMAIN user' : declared'[j] = declared[j]
            BY <2>2, <3>1 DEF vxRemoveKernel, DropParams, Without, Restrict
        <3> QED  BY <3>2 DEF ParamInv, ParametersAsDeclared, Described
    <2>3. ASSUME NEW t \in Threads, NEW i \in DOMAIN user, NEW index \in Indices,
                 vxAddParameterToKernel(t, i, index)
          PROVE  Params'
        <3> DEFINE list == IF i \in DOMAIN params THEN params[i] ELSE <<>>
        <3> DEFINE new == [j \in 1..Len(list) \cup 1..index |->
                               IF j = index THEN "declared"
                               ELSE IF j <= Len(list) THEN list[j] ELSE "filled"]
        <3> DEFINE length == IF index <= Len(list) THEN Len(list) ELSE index
        <3>1. /\ DOMAIN params' = (DOMAIN params) \cup {i} /\ params'[i] = new
              /\ \A j \in DOMAIN params : j # i => params'[j] = params[j]
              /\ user' = user
            BY <2>3 DEF vxAddParameterToKernel, With, Entry
        <3>2. /\ declared'[i] = declared[i] \cup {index}
              /\ \A j \in DOMAIN user : j # i => declared'[j] = declared[j]
            BY <2>3 DEF vxAddParameterToKernel, Inv, TypeInv
        <3>3. list \in Seq({"declared", "filled"}) /\ index \in Nat \ {0} /\ Len(list) \in Nat
            BY KernelAssumption DEF ParamInv
        <3>4. DOMAIN new = 1..length /\ length \in Nat
            BY <3>3
        <3>5. \A j \in 1..length : new[j] \in {"declared", "filled"}
            BY <3>3, <3>4
        <3>6. new \in Seq({"declared", "filled"}) /\ Len(new) = length
            <4>1. new \in [1..length -> {"declared", "filled"}]
                BY <3>4, <3>5
            <4> HIDE DEF new, length
            <4>2. new \in Seq({"declared", "filled"})
                BY <3>4, <4>1, SeqDef
            <4>3. Len(new) \in Nat /\ DOMAIN new = 1..Len(new)
                BY <4>2
            <4> QED  BY <3>4, <4>2, <4>3
        <3>7. ParamInv'
            BY <3>1, <3>2, <3>6 DEF ParamInv
        <3>8. ASSUME NEW k \in Indices
              PROVE  Described(i, k)' = "declared" <=> k \in declared'[i]
            <4>1. k \in Nat \ {0}
                BY KernelAssumption
            <4>2. Described(i, k)' = IF k <= length THEN new[k] ELSE "default"
                <5> HIDE DEF new, length
                <5> QED  BY <3>1, <3>6 DEF Described
            <4>3. Described(i, k) = IF k <= Len(list) THEN list[k] ELSE "default"
                BY <4>1 DEF Described
            <4>4. Described(i, k)' = "declared" <=> k = index \/ Described(i, k) = "declared"
                BY <3>3, <3>4, <4>1, <4>2, <4>3
            <4> QED  BY <3>2, <4>4 DEF ParametersAsDeclared
        <3>9. ASSUME NEW j \in DOMAIN user, j # i, NEW k \in Indices
              PROVE  Described(j, k)' = "declared" <=> k \in declared'[j]
            <4>1. Described(j, k)' = Described(j, k)
                BY <3>1, <3>9 DEF Described
            <4> QED  BY <3>2, <3>9, <4>1 DEF ParametersAsDeclared
        <3> QED  BY <3>1, <3>7, <3>8, <3>9 DEF ParametersAsDeclared
    <2>4. ASSUME Next  PROVE Params'
        <3>1. CASE ContextStep
            BY <2>0, <3>1 DEF ContextStep, vxCreateContext, vxReleaseContext, vxLoadKernels
        <3>2. ASSUME NEW t \in Threads, KernelStep(t)  PROVE Params'
            BY <2>0, <3>2 DEF KernelStep, FindKernel, GetRegistered, FindUserKernel, GetUser, FindNone,
                              MakeKernel, EndRelease, vxReleaseKernel, vxUnloadKernels, EndUnload
        <3>3. ASSUME NEW t \in Threads, UserStep(t)  PROVE Params'
            BY <2>0, <2>1, <2>2, <2>3, <3>3 DEF UserStep, vxAllocateUserKernelId, ResetIds, TakeId
        <3> QED  BY <2>4, <3>1, <3>2, <3>3, Steps
    <2> QED  BY <2>0, <2>4 DEF vars
<1>3. Params => ParametersAsDeclared
    OBVIOUS
<1> HIDE DEF Params
<1> QED  BY <1>1, <1>2, <1>3, InvInit, InvStep, PTL DEF Spec
=============================================================================
