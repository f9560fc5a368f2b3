------------------------------ MODULE MmalProofs -----------------------------
(***************************************************************************)
(* Proofs about MmalComponent, for any finite number of components and     *)
(* references and any number of threads, and about MmalClock, for any set  *)
(* of requests.                                                            *)
(***************************************************************************)
EXTENDS MmalComponent, MmalClock, FiniteSetTheorems, SequenceTheorems,
        WellFoundedInduction, TLAPS

Counts ==
    \A c \in Comps : /\ refcount[c] = Cardinality(crefs[c])
                     /\ refcountPorts[c] = Cardinality(prefs[c])

OnlyLiveReferenced ==
    \A c \in Comps : cstate[c] # "live" => crefs[c] = {} /\ prefs[c] = {}

(* What a thread knows of the component it works on.                       *)
Known ==
    /\ \A c \in Comps : cstate[c] \in {"none", "building"} => ~ destructionPending[c]
    /\ \A t \in CompThreads :
        /\ cpc[t] = "build" => cstate[ccomp[t]] = "building"
        /\ cpc[t] \in {"ports", "check"} =>
              /\ cstate[ccomp[t]] = "live" /\ crefs[ccomp[t]] = {}
              /\ destructionPending[ccomp[t]]
        /\ cpc[t] = "destroy" =>
              /\ cstate[ccomp[t]] \in {"building", "live"}
              /\ crefs[ccomp[t]] = {} /\ prefs[ccomp[t]] = {}

OneEach ==
    \A t, u \in CompThreads :
        cpc[t] # "idle" /\ cpc[u] # "idle" /\ ccomp[t] = ccomp[u] => t = u

(* destruction_pending is up only while the thread that raised it is at    *)
(* work, and a component without references has a thread to destroy it.    *)
Attended ==
    \A c \in Comps :
        cstate[c] = "live" /\ (destructionPending[c] \/ crefs[c] \cup prefs[c] = {}) =>
            \E t \in CompThreads : cpc[t] \in {"ports", "check", "destroy"} /\ ccomp[t] = c

CompInv ==
    CompTypeOK /\ Counts /\ OnlyLiveReferenced /\ Known /\ OneEach /\ Attended

(* The number of references, and what becomes of it when one is added or   *)
(* removed.                                                                *)
LEMMA RefSetCounts ==
    ASSUME NEW S \in SUBSET Refs, NEW r \in Refs
    PROVE  /\ Cardinality(S) \in Nat
           /\ Cardinality(S) = 0 <=> S = {}
           /\ r \notin S => Cardinality(S \cup {r}) = Cardinality(S) + 1
           /\ r \in S => Cardinality(S \ {r}) = Cardinality(S) - 1
           /\ Cardinality({r}) = 1
<1>1. IsFiniteSet(S)  BY FS_Subset, CompAssumption, Zenon
<1>2. {r} = {} \cup {r}  BY Zenon
<1>3. Cardinality(S) \in Nat  BY <1>1, FS_CardinalityType, Zenon
<1>4. Cardinality(S) = 0 <=> S = {}  BY <1>1, FS_EmptySet, Zenon
<1>5. r \notin S => Cardinality(S \cup {r}) = Cardinality(S) + 1  BY <1>1, FS_AddElement, Zenon
<1>6. r \in S => Cardinality(S \ {r}) = Cardinality(S) - 1  BY <1>1, FS_RemoveElement, Zenon
<1>7. Cardinality({r}) = 1
  <2>1. IsFiniteSet({}) /\ Cardinality({}) = 0  BY FS_EmptySet, Zenon
  <2>2. Cardinality({} \cup {r}) = 0 + 1  BY <2>1, FS_AddElement, Zenon
  <2> QED  BY <1>2, <2>2
<1> QED  BY <1>3, <1>4, <1>5, <1>6, <1>7, Zenon

(* refcount and refcount_ports follow the references held.                 *)
LEMMA CountsKept ==
    ASSUME CompTypeOK, Counts, Known, NEW t \in CompThreads, CompStep(t)
    PROVE  Counts'
<1> USE DEF Counts
<1>0. \A c \in Comps : /\ crefs[c] \in SUBSET Refs /\ prefs[c] \in SUBSET Refs
                       /\ refcount[c] \in Int /\ refcountPorts[c] \in Int
  BY Zenon DEF CompTypeOK
<1>1. ASSUME NEW c \in Comps, NEW r \in Refs
      PROVE  /\ r \notin crefs[c] => Cardinality(crefs[c] \cup {r}) = refcount[c] + 1
             /\ r \in crefs[c] => Cardinality(crefs[c] \ {r}) = refcount[c] - 1
             /\ r \notin prefs[c] => Cardinality(prefs[c] \cup {r}) = refcountPorts[c] + 1
             /\ r \in prefs[c] => Cardinality(prefs[c] \ {r}) = refcountPorts[c] - 1
  <2>1. crefs[c] \in SUBSET Refs /\ prefs[c] \in SUBSET Refs  BY <1>0, Zenon
  <2>2. /\ r \notin crefs[c] => Cardinality(crefs[c] \cup {r}) = Cardinality(crefs[c]) + 1
        /\ r \in crefs[c] => Cardinality(crefs[c] \ {r}) = Cardinality(crefs[c]) - 1
    BY <2>1, RefSetCounts, Zenon
  <2>3. /\ r \notin prefs[c] => Cardinality(prefs[c] \cup {r}) = Cardinality(prefs[c]) + 1
        /\ r \in prefs[c] => Cardinality(prefs[c] \ {r}) = Cardinality(prefs[c]) - 1
    BY <2>1, RefSetCounts, Zenon
  <2> QED  BY <2>2, <2>3, Zenon
<1>2. /\ crefs \in [Comps -> SUBSET Refs] /\ refcount \in [Comps -> Int]
      /\ prefs \in [Comps -> SUBSET Refs] /\ refcountPorts \in [Comps -> Int]
  BY Zenon DEF CompTypeOK
<1>3. ASSUME NEW c \in Comps, NEW r \in Refs, Acquire(t, c, r)  PROVE Counts'
  BY <1>1, <1>2, <1>3, Zenon DEF Acquire
<1>4. ASSUME NEW c \in Comps, NEW r \in Refs, PayloadAlloc(t, c, r)  PROVE Counts'
  BY <1>1, <1>2, <1>4, Zenon DEF PayloadAlloc
<1>5. ASSUME NEW c \in Comps, NEW r \in Refs, Release(t, c, r)  PROVE Counts'
  <2>1. /\ r \in crefs[c]
        /\ crefs' = [crefs EXCEPT ![c] = @ \ {r}]
        /\ refcount' = [refcount EXCEPT ![c] = @ - 1]
        /\ UNCHANGED <<prefs, refcountPorts>>
    BY <1>5, Zenon DEF Release
  <2> QED  BY <1>1, <1>2, <2>1, Zenon
<1>6. ASSUME NEW c \in Comps, NEW r \in Refs, PayloadFree(t, c, r)  PROVE Counts'
  <2>1. /\ r \in prefs[c]
        /\ prefs' = [prefs EXCEPT ![c] = @ \ {r}]
        /\ refcountPorts' = [refcountPorts EXCEPT ![c] = @ - 1]
        /\ UNCHANGED <<crefs, refcount>>
    BY <1>6, Zenon DEF PayloadFree
  <2> QED  BY <1>1, <1>2, <2>1, Zenon
<1>7. ASSUME NEW r \in Refs, Construct(t, r)  PROVE Counts'
  <2>1. Cardinality({r}) = 1  BY RefSetCounts, Zenon
  <2> QED  BY <1>2, <1>7, <2>1, Zenon DEF Construct
<1>8. CASE UNCHANGED <<crefs, prefs, refcount, refcountPorts>>  BY <1>8, Zenon
<1> QED
  BY <1>3, <1>4, <1>5, <1>6, <1>7, <1>8, Zenon DEF CompStep, Create, PortEnable, DisablePorts,
     CheckPorts, Destroy

(* So the code's tests of the counts are tests for the last reference.     *)
LEMMA ZeroIsNone ==
    ASSUME CompTypeOK, Counts, NEW c \in Comps
    PROVE  /\ refcount[c] = 0 <=> crefs[c] = {}
           /\ refcountPorts[c] = 0 <=> prefs[c] = {}
<1>1. crefs[c] \in SUBSET Refs /\ prefs[c] \in SUBSET Refs  BY Zenon DEF CompTypeOK
<1>2. IsFiniteSet(crefs[c]) /\ IsFiniteSet(prefs[c])
  BY <1>1, FS_Subset, CompAssumption, Zenon
<1> QED  BY <1>2, FS_EmptySet, Zenon DEF Counts

LEMMA CompTypesKept ==
    ASSUME CompTypeOK, CompNext
    PROVE  CompTypeOK'
<1> USE DEF CompTypeOK
<1> PICK t \in CompThreads : CompStep(t)  BY Zenon DEF CompNext
<1>1. ASSUME NEW c \in Comps, Create(t, c)  PROVE CompTypeOK'
  BY <1>1 DEF Create, At
<1>2. ASSUME NEW c \in Comps, PortEnable(t, c)  PROVE CompTypeOK'
  BY <1>2, Zenon DEF PortEnable
<1>3. ASSUME NEW c \in Comps, NEW r \in Refs, Acquire(t, c, r)  PROVE CompTypeOK'
  BY <1>3 DEF Acquire
<1>4. ASSUME NEW c \in Comps, NEW r \in Refs, PayloadAlloc(t, c, r)  PROVE CompTypeOK'
  BY <1>4 DEF PayloadAlloc
<1>5. ASSUME NEW c \in Comps, NEW r \in Refs, Release(t, c, r)  PROVE CompTypeOK'
  <2>1. crefs' \in [Comps -> SUBSET Refs] /\ refcount' \in [Comps -> Int]
    BY <1>5 DEF Release
  <2>2. CASE UNCHANGED <<destructionPending, cpc, ccomp>>
    BY <1>5, <2>1, <2>2, Zenon DEF Release
  <2>3. CASE /\ destructionPending' = [destructionPending EXCEPT ![c] = TRUE]
             /\ At(t, "ports", c)
    BY <1>5, <2>1, <2>3 DEF Release, At
  <2> QED  BY <1>5, <2>2, <2>3, Zenon DEF Release
<1>6. ASSUME NEW c \in Comps, NEW r \in Refs, PayloadFree(t, c, r)  PROVE CompTypeOK'
  BY <1>6 DEF PayloadFree, At
<1>7. ASSUME NEW r \in Refs, Construct(t, r)  PROVE CompTypeOK'
  BY <1>7 DEF Construct, Idle, At
<1>8. CASE DisablePorts(t)  BY <1>8, Zenon DEF DisablePorts, At
<1>9. CASE CheckPorts(t)
  <2>1. CASE Idle(t)  BY <1>9, <2>1, Zenon DEF CheckPorts, Idle, At
  <2>2. CASE At(t, "destroy", ccomp[t]) /\ UNCHANGED destructionPending
    BY <1>9, <2>2, Zenon DEF CheckPorts, At
  <2> QED  BY <1>9, <2>1, <2>2, Zenon DEF CheckPorts
<1>10. CASE Destroy(t)  BY <1>10 DEF Destroy, Idle, At
<1> QED
  BY <1>1, <1>2, <1>3, <1>4, <1>5, <1>6, <1>7, <1>8, <1>9, <1>10, Zenon DEF CompStep

LEMMA CompInvInit == CompInit => CompInv
<1> SUFFICES ASSUME CompInit PROVE CompInv  BY Zenon
<1> USE DEF CompInit
<1>1. CompTypeOK  BY DEF CompTypeOK
<1>2. Counts  BY FS_EmptySet, Zenon DEF Counts
<1> QED  BY <1>1, <1>2, Zenon DEF CompInv, OnlyLiveReferenced, Known, OneEach, Attended

LEMMA CompInvStep ==
    ASSUME CompInv, CompNext
    PROVE  CompInv'
<1> USE DEF CompInv
<1>0. CompTypeOK'  BY CompTypesKept, Zenon
<1> PICK t \in CompThreads : CompStep(t)  BY Zenon DEF CompNext
<1>a. Counts'  BY CountsKept, Zenon
<1>b. \A c \in Comps :
         /\ refcount[c] = 0 <=> crefs[c] = {}
         /\ refcountPorts[c] = 0 <=> prefs[c] = {}
  BY ZeroIsNone, Zenon
<1>c. \A c \in Comps :
         /\ (refcount[c] = 0)' <=> (crefs[c] = {})'
         /\ (refcountPorts[c] = 0)' <=> (prefs[c] = {})'
  <2>1. \A c \in Comps : /\ crefs'[c] \in SUBSET Refs /\ prefs'[c] \in SUBSET Refs
                         /\ refcount'[c] = Cardinality(crefs'[c])
                         /\ refcountPorts'[c] = Cardinality(prefs'[c])
    BY <1>0, <1>a, Zenon DEF CompTypeOK, Counts
  <2>2. \A c \in Comps : IsFiniteSet(crefs'[c]) /\ IsFiniteSet(prefs'[c])
    BY <2>1, FS_Subset, CompAssumption, Zenon
  <2> QED  BY <2>1, <2>2, FS_EmptySet, Zenon
<1> USE DEF CompTypeOK, OnlyLiveReferenced, Known, OneEach, Attended
<1>1. ASSUME NEW c \in Comps, Create(t, c)  PROVE CompInv'
  BY <1>0, <1>a, <1>1 DEF Create, At
<1>2. ASSUME NEW c \in Comps, PortEnable(t, c)  PROVE CompInv'
  BY <1>0, <1>a, <1>2 DEF PortEnable
<1>3. ASSUME NEW c \in Comps, NEW r \in Refs, Acquire(t, c, r)  PROVE CompInv'
  BY <1>0, <1>a, <1>3 DEF Acquire
<1>4. ASSUME NEW c \in Comps, NEW r \in Refs, PayloadAlloc(t, c, r)  PROVE CompInv'
  BY <1>0, <1>a, <1>4 DEF PayloadAlloc
<1>5. ASSUME NEW c \in Comps, NEW r \in Refs, Release(t, c, r)  PROVE CompInv'
  <2>1. OnlyLiveReferenced'  BY <1>0, <1>5 DEF Release
  <2>2. Known' /\ OneEach'  BY <1>0, <1>5, <1>c DEF Release, At
  <2>3. Attended'  BY <1>0, <1>5, <1>c DEF Release, At
  <2> QED  BY <1>0, <1>a, <2>1, <2>2, <2>3, Zenon
<1>6. ASSUME NEW c \in Comps, NEW r \in Refs, PayloadFree(t, c, r)  PROVE CompInv'
  <2>1. OnlyLiveReferenced'  BY <1>0, <1>6 DEF PayloadFree
  <2>2. Known' /\ OneEach'
    <3>1. cstate[c] = "live" /\ prefs[c] # {}  BY <1>6, Zenon DEF PayloadFree
    <3>2. CASE UNCHANGED <<cpc, ccomp>>
      <4>1. Known'  BY <1>0, <1>6, <3>1, <3>2, Zenon DEF PayloadFree
      <4>2. OneEach'
        <5> HIDE DEF CompTypeOK, OnlyLiveReferenced, Known, Attended
        <5> QED  BY <3>2, Zenon
      <4> QED  BY <4>1, <4>2, Zenon
    <3>3. CASE /\ At(t, "destroy", c) /\ prefs'[c] = {} /\ crefs[c] = {}
               /\ ~ destructionPending[c]
      <4>1. \A u \in CompThreads : cpc[u] # "idle" => ccomp[u] # c
        <5> HIDE DEF OnlyLiveReferenced, OneEach, Attended
        <5> QED  BY <3>1, <3>3, Zenon
      <4>2. OneEach'  BY <4>1, <3>3 DEF At
      <4>3. Known'  BY <1>0, <1>6, <3>1, <3>3, <4>1 DEF PayloadFree, At
      <4> QED  BY <4>2, <4>3, Zenon
    <3> QED  BY <1>6, <1>b, <1>c, <3>2, <3>3, Zenon DEF PayloadFree
  <2>3. Attended'  BY <1>0, <1>6, <1>b, <1>c DEF PayloadFree, At
  <2> QED  BY <1>0, <1>a, <2>1, <2>2, <2>3, Zenon
<1>7. ASSUME NEW r \in Refs, Construct(t, r)  PROVE CompInv'
  <2>1. OnlyLiveReferenced'  BY <1>0, <1>7 DEF Construct
  <2>2. Known' /\ OneEach'  BY <1>0, <1>7 DEF Construct, Idle, At
  <2>3. CASE At(t, "destroy", ccomp[t]) /\ UNCHANGED <<cstate, crefs>>
    <3>1. destructionPending' = destructionPending /\ prefs' = prefs  BY <1>7, Zenon DEF Construct
    <3>2. Attended'
      <4> HIDE DEF OnlyLiveReferenced, OneEach
      <4> QED  BY <1>7, <2>3, <3>1, Zenon DEF At
    <3> QED  BY <1>0, <1>a, <2>1, <2>2, <3>2, Zenon
  <2>4. CASE crefs' = [crefs EXCEPT ![ccomp[t]] = {r}] /\ Idle(t)
    <3>1. destructionPending' = destructionPending /\ prefs' = prefs  BY <1>7, Zenon DEF Construct
    <3>2. ASSUME NEW c \in Comps, c # ccomp[t], (cstate[c] = "live")',
                 (destructionPending[c] \/ crefs[c] \cup prefs[c] = {})'
          PROVE  \E u \in CompThreads :
                    (cpc[u] \in {"ports", "check", "destroy"} /\ ccomp[u] = c)'
      BY <1>7, <2>4, <3>1, <3>2 DEF Construct, Idle, At
    <3>3. crefs'[ccomp[t]] # {} /\ ~ destructionPending[ccomp[t]]
      BY <1>7, <2>4, Zenon DEF Construct
    <3>4. Attended'  BY <3>1, <3>2, <3>3
    <3> QED  BY <1>0, <1>a, <2>1, <2>2, <3>4, Zenon
  <2> QED  BY <1>7, <2>3, <2>4, Zenon DEF Construct
<1>8. CASE DisablePorts(t)  BY <1>0, <1>a, <1>8 DEF DisablePorts, At
<1>9. CASE CheckPorts(t)
  <2>1. OnlyLiveReferenced' /\ OneEach'  BY <1>0, <1>9 DEF CheckPorts, Idle, At
  <2>2. Known'  BY <1>0, <1>b, <1>9 DEF CheckPorts, Idle, At
  <2>3. Attended'  BY <1>0, <1>b, <1>9 DEF CheckPorts, Idle, At
  <2> QED  BY <1>0, <1>a, <2>1, <2>2, <2>3, Zenon
<1>10. CASE Destroy(t)  BY <1>0, <1>a, <1>10 DEF Destroy, Idle, At
<1> QED
  BY <1>1, <1>2, <1>3, <1>4, <1>5, <1>6, <1>7, <1>8, <1>9, <1>10, Zenon DEF CompStep

LEMMA CompInvAlways == CompSpec => []CompInv
<1>1. ASSUME CompInv, UNCHANGED compVars  PROVE CompInv'
  BY <1>1 DEF CompInv, CompTypeOK, Counts, OnlyLiveReferenced, Known, OneEach, Attended,
              compVars
<1> QED  BY CompInvInit, CompInvStep, <1>1, PTL DEF CompSpec

(* A reference or a payload keeps its component alive.                     *)
THEOREM ReferenceKeepsAlive == CompSpec => []LiveWhileReferenced
<1>1. CompInv => LiveWhileReferenced
  BY Zenon DEF CompInv, OnlyLiveReferenced, Known, LiveWhileReferenced, Destroying
<1> QED  BY CompInvAlways, <1>1, PTL

(* A component is taken down by one thread, while it exists.               *)
THEOREM TakenDownOnce == CompSpec => []DestroyedOnce
<1>1. CompInv => DestroyedOnce
  BY Zenon DEF CompInv, Known, OneEach, DestroyedOnce, Destroying
<1> QED  BY CompInvAlways, <1>1, PTL

(* A component without references is being taken down.                     *)
THEOREM NeverOrphaned == CompSpec => []NoOrphan
<1>1. CompInv => NoOrphan  BY Zenon DEF CompInv, Attended, NoOrphan, Destroying
<1> QED  BY CompInvAlways, <1>1, PTL

(* Nobody enables a port of a component that is being taken down.          *)
THEOREM DisabledForGood == CompSpec => PortsStayDisabled
<1>1. ASSUME CompInv, [CompNext]_compVars, NEW c \in Comps,
             Destroying(c, {"check", "destroy"}) # {}, portsOn'[c]
      PROVE  portsOn[c]
  <2>1. crefs[c] = {}  BY <1>1, Zenon DEF CompInv, Known, Destroying
  <2>2. CASE UNCHANGED compVars  BY <1>1, <2>2, Zenon DEF compVars
  <2>3. CASE CompNext
    <3> USE DEF CompInv, CompTypeOK
    <3> PICK t \in CompThreads : CompStep(t)  BY <2>3, Zenon DEF CompNext
    <3>1. ASSUME NEW d \in Comps, PortEnable(t, d)  PROVE portsOn[c]
      BY <1>1, <2>1, <3>1, Zenon DEF PortEnable
    <3>2. CASE DisablePorts(t)  BY <1>1, <3>2, Zenon DEF DisablePorts
    <3>3. CASE UNCHANGED portsOn  BY <1>1, <3>3, Zenon
    <3> QED
      BY <3>1, <3>2, <3>3, Zenon DEF CompStep, Create, Acquire, PayloadAlloc, Release,
         PayloadFree, Construct, CheckPorts, Destroy
  <2> QED  BY <1>1, <2>2, <2>3, Zenon
<1>2. ASSUME CompInv, [CompNext]_compVars
      PROVE  [\A c \in Comps : Destroying(c, {"check", "destroy"}) # {}
                  => (portsOn'[c] => portsOn[c])]_compVars
  BY <1>1, <1>2, Zenon
<1> QED  BY CompInvAlways, <1>2, PTL DEF CompSpec, PortsStayDisabled

(* mmal_core_refcount counts the components that exist or were lost.       *)
THEOREM CoreBalanced == CompSpec => []CoreCounted
<1> DEFINE Made == {c \in Comps : cstate[c] \notin {"none", "dead"}}
<1>1. CompInit => CoreCounted
  <2> SUFFICES ASSUME CompInit PROVE Made = {} /\ coreRefs = 0
    BY FS_EmptySet, Zenon DEF CoreCounted
  <2> QED  BY Zenon DEF CompInit
<1>2. ASSUME CompInv, CoreCounted, [CompNext]_compVars  PROVE CoreCounted'
  <2> USE DEF CompInv, CompTypeOK, CoreCounted
  <2>1. IsFiniteSet(Made) /\ Cardinality(Made) \in Nat
    BY FS_Subset, FS_CardinalityType, CompAssumption, Zenon
  <2>2. ASSUME NEW c \in Comps, c \notin Made, Made' = Made \cup {c}, coreRefs' = coreRefs + 1
        PROVE  CoreCounted'
    BY <1>2, <2>1, <2>2, FS_AddElement, Zenon
  <2>3. ASSUME NEW c \in Comps, c \in Made, Made' = Made \ {c}, coreRefs' = coreRefs - 1
        PROVE  CoreCounted'
    <3>1. Cardinality(Made \ {c}) = Cardinality(Made) - 1
      BY <2>1, <2>3, FS_RemoveElement, Zenon
    <3> QED  BY <1>2, <2>3, <3>1, Zenon
  <2>4. ASSUME Made' = Made, coreRefs' = coreRefs  PROVE CoreCounted'
    BY <1>2, <2>4, Zenon
  <2>5. CASE UNCHANGED compVars  BY <1>2, <2>5, Zenon DEF compVars
  <2>6. CASE CompNext
    <3> PICK t \in CompThreads : CompStep(t)  BY <2>6, Zenon DEF CompNext
    <3>1. ASSUME NEW c \in Comps, Create(t, c)  PROVE CoreCounted'
      <4>1. c \notin Made /\ Made' = Made \cup {c} /\ coreRefs' = coreRefs + 1
        BY <1>2, <3>1 DEF Create
      <4> QED  BY <2>2, <4>1, Zenon
    <3>2. ASSUME NEW r \in Refs, Construct(t, r)  PROVE CoreCounted'
      <4>1. Made' = Made /\ coreRefs' = coreRefs
        BY <1>2, <3>2, Zenon DEF Construct, Known
      <4> QED  BY <2>4, <4>1, Zenon
    <3>3. CASE Destroy(t)
      <4>1. ccomp[t] \in Comps /\ ccomp[t] \in Made
        BY <1>2, <3>3, Zenon DEF Destroy, Known
      <4>2. CASE coreRefs' = coreRefs - 1 /\ cstate' = [cstate EXCEPT ![ccomp[t]] = "dead"]
        <5>1. Made' = Made \ {ccomp[t]}  BY <1>2, <4>1, <4>2, Zenon
        <5> QED  BY <2>3, <4>1, <4>2, <5>1, Zenon
      <4>3. CASE coreRefs' = coreRefs /\ cstate' = [cstate EXCEPT ![ccomp[t]] = "stuck"]
        <5>1. Made' = Made  BY <1>2, <4>1, <4>3, Zenon
        <5> QED  BY <2>4, <4>3, <5>1, Zenon
      <4> QED  BY <3>3, <4>2, <4>3, Zenon DEF Destroy
    <3>4. CASE UNCHANGED <<cstate, coreRefs>>  BY <1>2, <3>4, Zenon
    <3> QED
      BY <3>1, <3>2, <3>3, <3>4, Zenon DEF CompStep, PortEnable, Acquire, PayloadAlloc, Release,
         PayloadFree, DisablePorts, CheckPorts
  <2> QED  BY <1>2, <2>5, <2>6, Zenon
<1> QED  BY CompInvAlways, <1>1, <1>2, PTL DEF CompSpec

(* All of it: the life of a component is safe, for any number of them and  *)
(* of threads and references.                                              *)
THEOREM DestructionIsSafe == CompSpec => []DestructionSafe
<1>1. CompInv => CompTypeOK  BY Zenon DEF CompInv
<1>2. LiveWhileReferenced /\ DestroyedOnce /\ NoOrphan /\ CoreCounted /\ CompTypeOK
        => DestructionSafe
  BY Zenon DEF DestructionSafe
<1> QED
  BY CompInvAlways, ReferenceKeepsAlive, TakenDownOnce, NeverOrphaned, CoreBalanced,
     <1>1, <1>2, PTL

-----------------------------------------------------------------------------
(* The clock.  The calls that hold a slot, and the requests in the list.   *)
Inserting == {r \in Requests : InState(r, "a_insert")}
Waiting(r) == \E i \in DOMAIN pending : pending[i] = r
Accepted == {"a_wake", "added"}

ClockPcs ==
    {"idle", "a_far", "a_near", "a_slot", "a_insert", "a_wake", "added", "refused",
     "sleep", "w_lock", "w_next", "exit",
     "c_scale", "c_media", "c_wake", "c_join", "destroyed"}

ClockTypes ==
    /\ media \in 0..MaxMedia /\ average \in Int
    /\ age \in 0..(MaxMedia + WaitTime + TargetOffset)
    /\ scale \in {0, 1} /\ active \in BOOLEAN
    /\ timer \in 0..(MaxMedia + WaitTime + TargetOffset) \cup {Unset}
    /\ atTimer \in 0..MaxMedia
    /\ event \in Nat /\ stopping \in BOOLEAN /\ limitOn \in BOOLEAN
    /\ clockLock \in ClockThreads \cup {Unset}
    /\ kpc \in [ClockThreads -> ClockPcs] /\ kops \in 0..MaxOps

ListTypes ==
    /\ pending \in Seq(Requests) /\ freeSlots \in Nat
    /\ adj \in [Requests -> (-TargetOffset)..MaxMedia] /\ called \in [Requests -> Nat]

(* The list is in order and no request is in it twice.                     *)
InOrder ==
    /\ \A i, j \in DOMAIN pending : i < j => adj[pending[i]] <= adj[pending[j]]
    /\ \A i, j \in DOMAIN pending : pending[i] = pending[j] => i = j

(* Where a request is: its offset is subtracted with the slot in hand, and *)
(* an accepted one waits or was called.                                    *)
Stages ==
    \A r \in Requests :
      /\ kpc[r] \in {"a_near", "a_far", "a_slot"} => adj[r] >= 0
      /\ called[r] = IF kpc[r] \in Accepted /\ ~Waiting(r) THEN 1 ELSE 0
      /\ Waiting(r) => kpc[r] \in Accepted

(* A slot is lost only to a clock that stops.                              *)
SlotCount ==
    /\ IsFiniteSet(Inserting)
    /\ Len(pending) + freeSlots + Cardinality(Inserting) <= Slots
    /\ ~stopping => Len(pending) + freeSlots + Cardinality(Inserting) = Slots

Ended ==
    /\ kpc[Ctl] \in {"c_join", "destroyed"} => stopping
    /\ kpc[Ctl] = "destroyed" => pending = <<>>

ListInv == ListTypes /\ InOrder /\ Stages /\ SlotCount
ClockInv == ClockTypes /\ ListInv /\ Ended

(* The least of a set of numbers.                                          *)
LEMMA Least ==
    ASSUME NEW T \in SUBSET Nat, T # {}
    PROVE  \E n \in T : \A m \in T : n <= m
<1> DEFINE R == OpToRel(<, Nat)
<1>1. IsWellFoundedOn(R, Nat)  BY NatLessThanWellFounded, Zenon
<1>2. \A x, y \in Nat : y < x => <<y, x>> \in R  BY Zenon DEF OpToRel
<1> HIDE DEF R
<1>3. \E x \in T : \A y \in T : ~(<<y, x>> \in R)  BY <1>1, WFMin, Zenon
<1>4. \E x \in T : \A y \in T : ~(y < x)  BY <1>2, <1>3, Zenon
<1> QED  BY <1>4

(* A sequence with one element put before its k-th.                        *)
LEMMA PutBefore ==
    ASSUME NEW S, NEW s \in Seq(S), NEW r \in S, NEW k \in 1..Len(s)
    PROVE  LET t == SubSeq(s, 1, k - 1) \o <<r>> \o SubSeq(s, k, Len(s))
           IN  /\ t \in Seq(S) /\ Len(t) = Len(s) + 1
               /\ \A i \in 1..(Len(s) + 1) :
                    t[i] = IF i < k THEN s[i] ELSE IF i = k THEN r ELSE s[i - 1]
<1> DEFINE a == SubSeq(s, 1, k - 1)
           b == SubSeq(s, k, Len(s))
           u == a \o <<r>>
<1>1. /\ a \in Seq(S) /\ Len(a) = k - 1 /\ \A i \in 1..(k - 1) : a[i] = s[i]
      /\ b \in Seq(S) /\ Len(b) = Len(s) - k + 1
      /\ \A i \in 1..(Len(s) - k + 1) : b[i] = s[k + i - 1]
  OBVIOUS
<1> HIDE DEF a, b
<1>2. u \in Seq(S) /\ Len(u) = k /\ (\A i \in 1..(k - 1) : u[i] = a[i]) /\ u[k] = r
  BY <1>1
<1> HIDE DEF u
<1> DEFINE w == u \o b
<1>3. /\ w \in Seq(S) /\ Len(w) = k + Len(b)
      /\ \A i \in 1..k : w[i] = u[i]
      /\ \A i \in (k + 1)..(k + Len(b)) : w[i] = b[i - k]
  <2>1. /\ w \in Seq(S) /\ Len(w) = Len(u) + Len(b)
        /\ \A i \in 1..(Len(u) + Len(b)) : w[i] = IF i <= Len(u) THEN u[i] ELSE b[i - Len(u)]
    BY <1>1, <1>2, ConcatProperties, Zenon
  <2> HIDE DEF w
  <2>2. k \in Nat /\ k >= 1 /\ Len(u) = k /\ Len(b) \in Nat  BY <1>1, <1>2
  <2>3. Len(w) = k + Len(b)  BY <2>1, <2>2, Zenon
  <2>4. ASSUME NEW i \in 1..k  PROVE w[i] = u[i]
    <3>1. i \in 1..(k + Len(b)) /\ i <= k  BY <2>2
    <3> QED  BY <2>1, <2>2, <3>1, Zenon
  <2>5. ASSUME NEW i \in (k + 1)..(k + Len(b))  PROVE w[i] = b[i - k]
    <3>1. i \in 1..(k + Len(b)) /\ ~(i <= k)  BY <2>2
    <3> QED  BY <2>1, <2>2, <3>1, Zenon
  <2> QED  BY <2>1, <2>3, <2>4, <2>5, Zenon
<1> HIDE DEF w
<1>4. \A i \in (k + 1)..(Len(s) + 1) : b[i - k] = s[i - 1]
  <2> TAKE i \in (k + 1)..(Len(s) + 1)
  <2>1. i - k \in 1..(Len(s) - k + 1) /\ k + (i - k) - 1 = i - 1  OBVIOUS
  <2> QED  BY <1>1, <2>1, Zenon
<1>5. ASSUME NEW i \in 1..(Len(s) + 1)
      PROVE  w[i] = IF i < k THEN s[i] ELSE IF i = k THEN r ELSE s[i - 1]
  BY <1>1, <1>2, <1>3, <1>4, SMTT(30)
<1>6. Len(w) = Len(s) + 1  BY <1>1, <1>3
<1> QED  BY <1>3, <1>5, <1>6, Zenon DEF w, u, a, b

(* The numbers of the clock, and its threads.                              *)
LEMMA ClockNumbers ==
    /\ MaxMedia \in Nat /\ MaxMedia > 0 /\ MaxIdle \in Nat /\ Slots \in Nat /\ Slots > 0
    /\ WaitTime \in Nat /\ MaxOps \in Nat /\ TargetOffset \in Nat
    /\ Times \subseteq 0..MaxMedia
    /\ Ctl \notin Requests /\ Worker \notin Requests /\ Ctl # Worker
BY ClockAssumption

(* mmal_clock_request_insert finds a place for a request: none before it   *)
(* is later, none behind it is earlier.                                    *)
LEMMA Placed ==
    ASSUME ClockTypes, ListTypes, InOrder, NEW r \in Requests
    PROVE  \E k \in 1..(Len(pending) + 1) :
             /\ Inserted(r) \in Seq(Requests) /\ Len(Inserted(r)) = Len(pending) + 1
             /\ \A i \in 1..(Len(pending) + 1) :
                  Inserted(r)[i] = IF i < k THEN pending[i]
                                   ELSE IF i = k THEN r ELSE pending[i - 1]
             /\ \A i \in 1..(k - 1) : adj[pending[i]] <= adj[r]
             /\ \A i \in k..Len(pending) : adj[r] <= adj[pending[i]]
<1> DEFINE n == Len(pending)
<1>0. /\ pending \in Seq(Requests) /\ n \in Nat /\ DOMAIN pending = 1..n
      /\ \A q \in Requests : adj[q] \in Int
      /\ \A i \in 1..n : pending[i] \in Requests
  <2>1. adj \in [Requests -> (-TargetOffset)..MaxMedia] /\ pending \in Seq(Requests)
    BY Zenon DEF ListTypes
  <2>2. \A m \in (-TargetOffset)..MaxMedia : m \in Int  BY ClockNumbers
  <2> QED  BY <2>1, <2>2
<1>1. \A q \in Requests : Earlier(r, q) <=> adj[r] < adj[q]
  BY <1>0 DEF Earlier, ClockTypes
<1>2. \A i, j \in 1..n : i < j => adj[pending[i]] <= adj[pending[j]]
  BY <1>0, Zenon DEF InOrder
<1>3. CASE pending = <<>> \/ ~Earlier(r, pending[n])
  <2>1. Inserted(r) = Append(pending, r)  BY <1>3, Zenon DEF Inserted
  <2>2. /\ Append(pending, r) \in Seq(Requests) /\ Len(Append(pending, r)) = n + 1
        /\ \A i \in 1..(n + 1) : Append(pending, r)[i] = IF i < n + 1 THEN pending[i] ELSE r
    BY <1>0
  <2>3. \A i \in 1..n : adj[pending[i]] <= adj[r]
    <3> TAKE i \in 1..n
    <3>1. pending # <<>> /\ n \in 1..n /\ adj[pending[n]] <= adj[r]  BY <1>0, <1>1, <1>3
    <3> QED  BY <1>0, <1>2, <3>1
  <2> QED  BY <1>0, <2>1, <2>2, <2>3
<1>4. CASE ~(pending = <<>> \/ ~Earlier(r, pending[n]))
  <2> DEFINE First(i) == Earlier(r, pending[i]) /\ \A j \in 1..(i - 1) : ~Earlier(r, pending[j])
             k == CHOOSE i \in DOMAIN pending : First(i)
             T == {i \in 1..n : adj[r] < adj[pending[i]]}
  <2>1. n \in T /\ T \in SUBSET Nat  BY <1>0, <1>1, <1>4
  <2>2. PICK i \in T : \A m \in T : i <= m  BY <2>1, Least, Zenon
  <2>3. i \in DOMAIN pending /\ First(i)
    <3>1. i \in 1..n /\ adj[r] < adj[pending[i]]  BY <2>2, Zenon
    <3>2. ASSUME NEW j \in 1..(i - 1)  PROVE ~Earlier(r, pending[j])
      <4>1. j \in 1..n /\ j < i  BY <1>0, <3>1
      <4>2. j \notin T  BY <2>2, <3>1, <4>1
      <4> QED  BY <1>0, <1>1, <4>1, <4>2, Zenon
    <3> QED  BY <1>0, <1>1, <3>1, <3>2, Zenon
  <2>4. k \in DOMAIN pending /\ First(k)  BY <2>3, Zenon
  <2>5. Inserted(r) = SubSeq(pending, 1, k - 1) \o <<r>> \o SubSeq(pending, k, n)
    BY <1>4, Zenon DEF Inserted
  <2> HIDE DEF k
  <2>6. k \in 1..n /\ adj[r] < adj[pending[k]]  BY <1>0, <1>1, <2>4, Zenon
  <2>7. \A j \in 1..(k - 1) : adj[pending[j]] <= adj[r]
    BY <1>0, <1>1, <2>4, <2>6
  <2>8. \A j \in k..n : adj[r] <= adj[pending[j]]
    BY <1>0, <1>2, <2>6
  <2>9. /\ Inserted(r) \in Seq(Requests) /\ Len(Inserted(r)) = n + 1
        /\ \A j \in 1..(n + 1) :
             Inserted(r)[j] = IF j < k THEN pending[j] ELSE IF j = k THEN r ELSE pending[j - 1]
    <3> DEFINE t == SubSeq(pending, 1, k - 1) \o <<r>> \o SubSeq(pending, k, n)
    <3>1. /\ t \in Seq(Requests) /\ Len(t) = n + 1
          /\ \A j \in 1..(n + 1) :
               t[j] = IF j < k THEN pending[j] ELSE IF j = k THEN r ELSE pending[j - 1]
      BY <1>0, <2>6, PutBefore
    <3>2. Inserted(r) = t  BY <2>5, Zenon
    <3> HIDE DEF t
    <3> QED  BY <3>1, <3>2, Zenon
  <2>10. k \in 1..(n + 1)  BY <1>0, <2>6
  <2> HIDE DEF n
  <2> QED  BY <2>7, <2>8, <2>9, <2>10, Zenon DEF n
<1> QED  BY <1>3, <1>4, Zenon

(* A step that leaves the list and the calls alone.                        *)
LEMMA ListQuiet ==
    ASSUME ListInv, UNCHANGED listVars, \A r \in Requests : kpc'[r] = kpc[r],
           ~stopping' => ~stopping
    PROVE  ListInv'
<1>1. ListTypes' /\ InOrder'  BY Zenon DEF ListInv, ListTypes, InOrder, listVars
<1>2. Stages'  BY Zenon DEF ListInv, Stages, Waiting, listVars
<1>3. Inserting' = Inserting  BY Zenon DEF Inserting, InState
<1>4. SlotCount'  BY <1>3, Zenon DEF ListInv, SlotCount, listVars
<1> QED  BY <1>1, <1>2, <1>4, Zenon DEF ListInv

(* mmal_clock_request_flush_locked calls every request of the list.        *)
LEMMA FlushKeeps ==
    ASSUME ListInv, FlushLocked, \A r \in Requests : kpc'[r] = kpc[r], stopping' = stopping
    PROVE  ListInv' /\ pending' = <<>>
<1> DEFINE rs == {pending[i] : i \in DOMAIN pending}
<1>0. /\ called' = [r \in Requests |-> called[r] + (IF r \in rs THEN 1 ELSE 0)]
      /\ adj' = [r \in Requests |-> IF r \in rs THEN 0 ELSE adj[r]]
      /\ freeSlots' = freeSlots + Len(pending) /\ pending' = <<>>
  BY Zenon DEF FlushLocked, Fired
<1>1. \A r : r \in rs <=> Waiting(r)  BY Zenon DEF Waiting
<1> HIDE DEF rs
<1>2. \A r : ~Waiting(r)'  BY <1>0 DEF Waiting
<1>3. \A r \in Requests : called'[r] = called[r] + (IF r \in rs THEN 1 ELSE 0)  BY <1>0, Zenon
<1>4. \A r \in Requests : /\ called[r] \in Nat /\ adj[r] \in (-TargetOffset)..MaxMedia
  BY Zenon DEF ListInv, ListTypes
<1>5. ListTypes'
  <2>1. Len(pending) \in Nat /\ freeSlots \in Nat  BY DEF ListInv, ListTypes
  <2>2. 0 \in (-TargetOffset)..MaxMedia  BY ClockNumbers
  <2>3. adj' \in [Requests -> (-TargetOffset)..MaxMedia]  BY <1>0, <1>4, <2>2, Zenon
  <2>4. called' \in [Requests -> Nat]  BY <1>0, <1>4
  <2> QED  BY <1>0, <2>1, <2>3, <2>4 DEF ListTypes
<1>6. InOrder'  BY <1>0 DEF InOrder
<1>7. Stages'
  <2> SUFFICES ASSUME NEW r \in Requests
               PROVE  /\ kpc'[r] \in {"a_near", "a_far", "a_slot"} => adj'[r] >= 0
                      /\ called'[r] = IF kpc'[r] \in Accepted /\ ~Waiting(r)' THEN 1 ELSE 0
                      /\ ~Waiting(r)'
    BY Zenon DEF Stages, Accepted
  <2>1. /\ kpc[r] \in {"a_near", "a_far", "a_slot"} => adj[r] >= 0
        /\ called[r] = IF kpc[r] \in Accepted /\ ~Waiting(r) THEN 1 ELSE 0
        /\ Waiting(r) => kpc[r] \in Accepted
    BY Zenon DEF ListInv, Stages
  <2>2. ~Waiting(r)' /\ (r \in rs <=> Waiting(r)) /\ kpc'[r] = kpc[r]  BY <1>1, <1>2, Zenon
  <2>3. adj'[r] = IF r \in rs THEN 0 ELSE adj[r]  BY <1>0, Zenon
  <2>4. called'[r] = IF kpc[r] \in Accepted THEN 1 ELSE 0  BY <1>3, <1>4, <2>1, <2>2
  <2>5. kpc'[r] \in {"a_near", "a_far", "a_slot"} => adj'[r] >= 0  BY <1>4, <2>1, <2>2, <2>3
  <2> QED  BY <2>2, <2>4, <2>5, Zenon
<1>8. SlotCount'
  <2>1. Inserting' = Inserting  BY Zenon DEF Inserting, InState
  <2>2. Len(pending) \in Nat /\ freeSlots \in Nat /\ Len(pending') = 0
    BY <1>0 DEF ListInv, ListTypes
  <2>3. Cardinality(Inserting) \in Nat  BY FS_CardinalityType, Zenon DEF ListInv, SlotCount
  <2> QED  BY <1>0, <2>1, <2>2, <2>3 DEF ListInv, SlotCount
<1> QED  BY <1>0, <1>5, <1>6, <1>7, <1>8, Zenon DEF ListInv

(* The worker calls the request at the front of the list.                  *)
LEMMA FrontKeeps ==
    ASSUME ListInv, pending # <<>>, Fired({Head(pending)}), freeSlots' = freeSlots + 1,
           pending' = Tail(pending), UNCHANGED <<kpc, stopping>>
    PROVE  ListInv'
<1> DEFINE h == Head(pending)
           n == Len(pending)
<1>0. /\ pending \in Seq(Requests) /\ n \in Nat \ {0} /\ DOMAIN pending = 1..n
      /\ h = pending[1] /\ h \in Requests
      /\ pending' \in Seq(Requests) /\ Len(pending') = n - 1 /\ DOMAIN pending' = 1..(n - 1)
      /\ \A i \in 1..(n - 1) : pending'[i] = pending[i + 1]
  BY DEF ListInv, ListTypes
<1> HIDE DEF h, n
<1>1. \A r \in Requests : /\ called'[r] = called[r] + (IF r = h THEN 1 ELSE 0)
                          /\ adj'[r] = IF r = h THEN 0 ELSE adj[r]
  BY Zenon DEF Fired, h
<1>2. \A i, j \in 1..n : pending[i] = pending[j] => i = j
  BY <1>0, Zenon DEF ListInv, InOrder
<1>3. \A i \in 1..(n - 1) : pending'[i] # h /\ pending'[i] \in Requests
  BY <1>0, <1>2
<1>4. \A r \in Requests : Waiting(r)' <=> Waiting(r) /\ r # h
  <2> TAKE r \in Requests
  <2>1. Waiting(r)' => Waiting(r) /\ r # h
    <3> SUFFICES ASSUME NEW i \in 1..(n - 1), pending'[i] = r  PROVE Waiting(r) /\ r # h
      BY <1>0, Zenon DEF Waiting
    <3>1. i + 1 \in DOMAIN pending /\ pending[i + 1] = r  BY <1>0
    <3> QED  BY <1>3, <3>1, Zenon DEF Waiting
  <2>2. Waiting(r) /\ r # h => Waiting(r)'
    <3> SUFFICES ASSUME NEW i \in 1..n, pending[i] = r, r # h  PROVE Waiting(r)'
      BY <1>0, Zenon DEF Waiting
    <3>1. i # 1  BY <1>0, Zenon
    <3>2. i - 1 \in 1..(n - 1) /\ (i - 1) + 1 = i  BY <1>0, <3>1
    <3>3. i - 1 \in DOMAIN pending' /\ pending'[i - 1] = r  BY <1>0, <3>2, Zenon
    <3> QED  BY <3>3, Zenon DEF Waiting
  <2> QED  BY <2>1, <2>2, Zenon
<1>5. \A r \in Requests : called[r] \in Nat /\ adj[r] \in (-TargetOffset)..MaxMedia
  BY Zenon DEF ListInv, ListTypes
<1>6. ListTypes'
  <2>1. 0 \in (-TargetOffset)..MaxMedia  BY ClockNumbers
  <2>2. adj' \in [Requests -> (-TargetOffset)..MaxMedia]  BY <1>5, <2>1, Zenon DEF Fired
  <2>3. called' \in [Requests -> Nat]  BY <1>5 DEF Fired
  <2>4. freeSlots' \in Nat  BY DEF ListInv, ListTypes
  <2> QED  BY <1>0, <2>2, <2>3, <2>4, Zenon DEF ListTypes
<1>7. InOrder'
  <2>1. ASSUME NEW i \in 1..(n - 1), NEW j \in 1..(n - 1), i < j
        PROVE  adj'[pending'[i]] <= adj'[pending'[j]]
    <3>1. i + 1 \in DOMAIN pending /\ j + 1 \in DOMAIN pending /\ i + 1 < j + 1  BY <1>0, <2>1
    <3>2. adj[pending[i + 1]] <= adj[pending[j + 1]]  BY <3>1, Zenon DEF ListInv, InOrder
    <3>3. adj'[pending'[i]] = adj[pending'[i]] /\ adj'[pending'[j]] = adj[pending'[j]]
      BY <1>1, <1>3, Zenon
    <3> QED  BY <1>0, <3>2, <3>3, Zenon
  <2>2. ASSUME NEW i \in 1..(n - 1), NEW j \in 1..(n - 1), pending'[i] = pending'[j]
        PROVE  i = j
    <3>1. i + 1 \in 1..n /\ j + 1 \in 1..n /\ pending[i + 1] = pending[j + 1]  BY <1>0, <2>2
    <3>2. i + 1 = j + 1  BY <1>2, <3>1, Zenon
    <3> QED  BY <1>0, <3>2
  <2> QED  BY <1>0, <2>1, <2>2, Zenon DEF InOrder
<1>8. Stages'
  <2> SUFFICES ASSUME NEW r \in Requests
               PROVE  /\ kpc'[r] \in {"a_near", "a_far", "a_slot"} => adj'[r] >= 0
                      /\ called'[r] = IF kpc'[r] \in Accepted /\ ~Waiting(r)' THEN 1 ELSE 0
                      /\ Waiting(r)' => kpc'[r] \in Accepted
    BY Zenon DEF Stages, Accepted
  <2>1. /\ kpc[r] \in {"a_near", "a_far", "a_slot"} => adj[r] >= 0
        /\ called[r] = IF kpc[r] \in Accepted /\ ~Waiting(r) THEN 1 ELSE 0
        /\ Waiting(r) => kpc[r] \in Accepted
    BY Zenon DEF ListInv, Stages
  <2>2. Waiting(h)  BY <1>0 DEF Waiting
  <2>3. called'[r] = IF kpc[r] \in Accepted /\ ~Waiting(r)' THEN 1 ELSE 0
    BY <1>1, <1>4, <1>5, <2>1, <2>2
  <2>4. kpc[r] \in {"a_near", "a_far", "a_slot"} => adj'[r] >= 0  BY <1>1, <1>5, <2>1
  <2>5. Waiting(r)' => kpc[r] \in Accepted  BY <1>4, <2>1, Zenon
  <2> QED  BY <2>3, <2>4, <2>5, Zenon
<1>9. SlotCount'
  <2>1. Inserting' = Inserting  BY Zenon DEF Inserting, InState
  <2>2. Cardinality(Inserting) \in Nat /\ freeSlots \in Nat
    BY FS_CardinalityType, Zenon DEF ListInv, SlotCount, ListTypes
  <2> QED  BY <1>0, <2>1, <2>2 DEF ListInv, SlotCount, n
<1> QED  BY <1>6, <1>7, <1>8, <1>9, Zenon DEF ListInv

(* A call before it has a slot: reading the time, checking the threshold.  *)
LEMMA AddTimeKeeps ==
    ASSUME ClockTypes, ListInv, NEW r \in Requests, AddTime(r)
    PROVE  ListInv'
<1>1. PICK time \in Times : /\ adj' = [adj EXCEPT ![r] = time]
                            /\ Moves(r, IF time > media' + RequestLimit THEN "a_far" ELSE "a_near")
  BY Zenon DEF AddTime
<1>2. /\ kpc[r] = "idle" /\ kpc \in [ClockThreads -> ClockPcs] /\ r \in ClockThreads
      /\ UNCHANGED <<pending, freeSlots, called, stopping>>
  BY Zenon DEF AddTime, InState, ClockTypes, ClockThreads, setVars
<1>3. /\ kpc'[r] \in {"a_near", "a_far"} /\ \A q \in Requests \ {r} : kpc'[q] = kpc[q]
  BY <1>1, <1>2, Zenon DEF Moves, ClockThreads
<1>4. time \in 0..MaxMedia /\ time \in (-TargetOffset)..MaxMedia /\ time >= 0
  BY ClockNumbers
<1>5. adj \in [Requests -> (-TargetOffset)..MaxMedia]  BY Zenon DEF ListInv, ListTypes
<1>6. /\ adj' \in [Requests -> (-TargetOffset)..MaxMedia] /\ adj'[r] = time
      /\ \A q \in Requests \ {r} : adj'[q] = adj[q]
  BY <1>1, <1>4, <1>5, Zenon
<1>7. ~Waiting(r)  BY <1>2, Zenon DEF ListInv, Stages, Accepted
<1>8. ListTypes'  BY <1>2, <1>6, Zenon DEF ListInv, ListTypes
<1>9. InOrder'
  <2>1. \A i \in DOMAIN pending : pending[i] \in Requests \ {r}
    BY <1>7 DEF Waiting, ListInv, ListTypes
  <2> QED  BY <1>2, <1>6, <2>1, Zenon DEF ListInv, InOrder
<1>10. Stages'
  <2> SUFFICES ASSUME NEW q \in Requests
               PROVE  /\ kpc'[q] \in {"a_near", "a_far", "a_slot"} => adj'[q] >= 0
                      /\ called'[q] = IF kpc'[q] \in Accepted /\ ~Waiting(q)' THEN 1 ELSE 0
                      /\ Waiting(q)' => kpc'[q] \in Accepted
    BY Zenon DEF Stages, Accepted
  <2>1. Waiting(q)' <=> Waiting(q)  BY <1>2, Zenon DEF Waiting
  <2> QED  BY <1>2, <1>3, <1>4, <1>6, <1>7, <2>1, Zenon DEF ListInv, Stages, Accepted
<1>11. SlotCount'
  <2>1. Inserting' = Inserting  BY <1>2, <1>3, Zenon DEF Inserting, InState
  <2> QED  BY <1>2, <2>1, Zenon DEF ListInv, SlotCount
<1> QED  BY <1>8, <1>9, <1>10, <1>11, Zenon DEF ListInv

(* A call leaves its check or its last step.                               *)
LEMMA AddMovesKeeps ==
    ASSUME ClockTypes, ListInv, NEW r \in Requests, AddCheck(r) \/ AddWake(r)
    PROVE  ListInv'
<1>1. /\ kpc \in [ClockThreads -> ClockPcs] /\ r \in ClockThreads
      /\ UNCHANGED <<pending, freeSlots, called, adj, stopping>>
  BY Zenon DEF AddCheck, AddWake, listVars, setVars, ClockTypes, ClockThreads
<1>2. /\ \/ kpc[r] \in {"a_near", "a_far"} /\ kpc'[r] \in {"a_slot", "refused"}
         \/ kpc[r] = "a_wake" /\ kpc'[r] = "added"
      /\ \A q \in Requests \ {r} : kpc'[q] = kpc[q]
  BY <1>1, Zenon DEF AddCheck, AddWake, Moves, InState, ClockThreads
<1>3. ListTypes' /\ InOrder'  BY <1>1, Zenon DEF ListInv, ListTypes, InOrder
<1>4. Stages'
  <2> SUFFICES ASSUME NEW q \in Requests
               PROVE  /\ kpc'[q] \in {"a_near", "a_far", "a_slot"} => adj'[q] >= 0
                      /\ called'[q] = IF kpc'[q] \in Accepted /\ ~Waiting(q)' THEN 1 ELSE 0
                      /\ Waiting(q)' => kpc'[q] \in Accepted
    BY Zenon DEF Stages, Accepted
  <2>1. Waiting(q)' <=> Waiting(q)  BY <1>1, Zenon DEF Waiting
  <2> QED  BY <1>1, <1>2, <2>1, Zenon DEF ListInv, Stages, Accepted
<1>5. SlotCount'
  <2>1. Inserting' = Inserting  BY <1>2, Zenon DEF Inserting, InState
  <2> QED  BY <1>1, <2>1, Zenon DEF ListInv, SlotCount
<1> QED  BY <1>3, <1>4, <1>5, Zenon DEF ListInv

(* A slot is taken.                                                        *)
LEMMA AddSlotKeeps ==
    ASSUME ClockTypes, ListInv, NEW r \in Requests, AddSlot(r)
    PROVE  ListInv'
<1>1. /\ kpc[r] = "a_slot" /\ kpc \in [ClockThreads -> ClockPcs] /\ r \in ClockThreads
      /\ UNCHANGED <<pending, called, stopping>>
  BY Zenon DEF AddSlot, InState, ClockTypes, ClockThreads, setVars
<1>2. adj \in [Requests -> (-TargetOffset)..MaxMedia] /\ freeSlots \in Nat
  BY Zenon DEF ListInv, ListTypes
<1>3. ~Waiting(r) /\ called[r] = 0 /\ adj[r] >= 0
  BY <1>1, Zenon DEF ListInv, Stages, Accepted
<1>4. /\ adj' \in [Requests -> (-TargetOffset)..MaxMedia]
      /\ \A q \in Requests \ {r} : adj'[q] = adj[q]
  <2>1. CASE freeSlots = 0  BY <1>2, <2>1, Zenon DEF AddSlot
  <2>2. CASE freeSlots # 0
    <3>1. adj' = [adj EXCEPT ![r] = @ - scale * TargetOffset]  BY <2>2, Zenon DEF AddSlot
    <3>2. adj[r] \in 0..MaxMedia  BY <1>2, <1>3, ClockNumbers
    <3>3. scale * TargetOffset \in {0, TargetOffset}  BY ClockNumbers DEF ClockTypes
    <3>4. adj[r] - scale * TargetOffset \in (-TargetOffset)..MaxMedia
      BY <3>2, <3>3, ClockNumbers
    <3> QED  BY <1>2, <3>1, <3>4, Zenon
  <2> QED  BY <2>1, <2>2, Zenon
<1>5. /\ kpc'[r] = IF freeSlots = 0 THEN "refused" ELSE "a_insert"
      /\ freeSlots' = IF freeSlots = 0 THEN freeSlots ELSE freeSlots - 1
      /\ \A q \in Requests \ {r} : kpc'[q] = kpc[q]
  BY <1>1, <1>2, Zenon DEF AddSlot, Moves, ClockThreads
<1>6. ListTypes'  BY <1>1, <1>2, <1>4, <1>5 DEF ListInv, ListTypes
<1>7. InOrder'
  <2>1. \A i \in DOMAIN pending : pending[i] \in Requests \ {r}
    BY <1>3 DEF Waiting, ListInv, ListTypes
  <2> QED  BY <1>1, <1>4, <2>1, Zenon DEF ListInv, InOrder
<1>8. Stages'
  <2> SUFFICES ASSUME NEW q \in Requests
               PROVE  /\ kpc'[q] \in {"a_near", "a_far", "a_slot"} => adj'[q] >= 0
                      /\ called'[q] = IF kpc'[q] \in Accepted /\ ~Waiting(q)' THEN 1 ELSE 0
                      /\ Waiting(q)' => kpc'[q] \in Accepted
    BY Zenon DEF Stages, Accepted
  <2>1. Waiting(q)' <=> Waiting(q)  BY <1>1, Zenon DEF Waiting
  <2> QED  BY <1>1, <1>3, <1>4, <1>5, <2>1, Zenon DEF ListInv, Stages, Accepted
<1>9. SlotCount'
  <2>1. CASE freeSlots = 0
    <3>1. Inserting' = Inserting  BY <1>1, <1>5, <2>1, Zenon DEF Inserting, InState
    <3> QED  BY <1>1, <1>5, <2>1, <3>1, Zenon DEF ListInv, SlotCount
  <2>2. CASE freeSlots # 0
    <3>1. Inserting' = Inserting \cup {r} /\ r \notin Inserting
      BY <1>1, <1>5, <2>2, Zenon DEF Inserting, InState
    <3>2. IsFiniteSet(Inserting)  BY Zenon DEF ListInv, SlotCount
    <3>3. /\ IsFiniteSet(Inserting') /\ Cardinality(Inserting') = Cardinality(Inserting) + 1
      BY <3>1, <3>2, FS_AddElement, Zenon
    <3>4. Cardinality(Inserting) \in Nat /\ Len(pending) \in Nat
      BY <3>2, FS_CardinalityType DEF ListInv, ListTypes
    <3> QED  BY <1>1, <1>2, <1>5, <2>2, <3>3, <3>4 DEF ListInv, SlotCount
  <2> QED  BY <2>1, <2>2, Zenon
<1> QED  BY <1>6, <1>7, <1>8, <1>9, Zenon DEF ListInv

(* The request goes into the list, or its slot is lost to a clock that     *)
(* stops.                                                                  *)
LEMMA AddInsertKeeps ==
    ASSUME ClockTypes, ListInv, NEW r \in Requests, AddInsert(r)
    PROVE  ListInv'
<1>1. /\ kpc[r] = "a_insert" /\ kpc \in [ClockThreads -> ClockPcs] /\ r \in ClockThreads
      /\ UNCHANGED <<freeSlots, called, adj, stopping>> /\ stopping \in BOOLEAN
  BY Zenon DEF AddInsert, InState, ClockTypes, ClockThreads, setVars
<1>2. /\ kpc'[r] = IF stopping THEN "refused" ELSE "a_wake"
      /\ \A q \in Requests \ {r} : kpc'[q] = kpc[q]
  BY <1>1, Zenon DEF AddInsert, Moves, ClockThreads
<1>3. ~Waiting(r) /\ called[r] = 0  BY <1>1, Zenon DEF ListInv, Stages, Accepted
<1>4. /\ Inserting' = Inserting \ {r} /\ r \in Inserting
      /\ IsFiniteSet(Inserting) /\ IsFiniteSet(Inserting')
      /\ Cardinality(Inserting) \in Nat /\ Cardinality(Inserting') = Cardinality(Inserting) - 1
  <2>1. Inserting' = Inserting \ {r} /\ r \in Inserting  BY <1>1, <1>2, Zenon DEF Inserting, InState
  <2>2. IsFiniteSet(Inserting)  BY Zenon DEF ListInv, SlotCount
  <2>3. /\ IsFiniteSet(Inserting \ {r})
        /\ Cardinality(Inserting \ {r}) = Cardinality(Inserting) - 1
    BY <2>1, <2>2, FS_RemoveElement, Zenon
  <2> QED  BY <2>1, <2>2, <2>3, FS_CardinalityType, Zenon
<1>5. Len(pending) \in Nat /\ freeSlots \in Nat  BY DEF ListInv, ListTypes
<1>6. CASE stopping
  <2>1. UNCHANGED pending  BY <1>6, Zenon DEF AddInsert
  <2>2. ListTypes' /\ InOrder'  BY <1>1, <2>1, Zenon DEF ListInv, ListTypes, InOrder
  <2>3. Stages'
    <3> SUFFICES ASSUME NEW q \in Requests
                 PROVE  /\ kpc'[q] \in {"a_near", "a_far", "a_slot"} => adj'[q] >= 0
                        /\ called'[q] = IF kpc'[q] \in Accepted /\ ~Waiting(q)' THEN 1 ELSE 0
                        /\ Waiting(q)' => kpc'[q] \in Accepted
      BY Zenon DEF Stages, Accepted
    <3>1. Waiting(q)' <=> Waiting(q)  BY <2>1, Zenon DEF Waiting
    <3> QED  BY <1>1, <1>2, <1>3, <1>6, <3>1, Zenon DEF ListInv, Stages, Accepted
  <2>4. SlotCount'
    <3>1. Len(pending) + freeSlots + Cardinality(Inserting) <= Slots
      BY Zenon DEF ListInv, SlotCount
    <3>2. /\ Len(pending') = Len(pending) /\ freeSlots' = freeSlots /\ stopping'
          /\ Cardinality(Inserting') <= Cardinality(Inserting) /\ Cardinality(Inserting') \in Int
      BY <1>1, <1>4, <1>6, <2>1
    <3>3. Len(pending') + freeSlots' + Cardinality(Inserting') <= Slots
      BY <1>4, <1>5, <3>1, <3>2, ClockNumbers
    <3> QED  BY <1>4, <3>2, <3>3, Zenon DEF SlotCount
  <2> QED  BY <2>2, <2>3, <2>4, Zenon DEF ListInv
<1>7. CASE ~stopping
  <2> DEFINE n == Len(pending)
  <2>1. pending' = Inserted(r)  BY <1>7, Zenon DEF AddInsert
  <2>2. PICK k \in 1..(n + 1) :
           /\ pending' \in Seq(Requests) /\ Len(pending') = n + 1
           /\ \A i \in 1..(n + 1) :
                pending'[i] = IF i < k THEN pending[i] ELSE IF i = k THEN r ELSE pending[i - 1]
           /\ \A i \in 1..(k - 1) : adj[pending[i]] <= adj[r]
           /\ \A i \in k..n : adj[r] <= adj[pending[i]]
    BY <2>1, Placed, Zenon DEF ListInv
  <2>3. /\ n \in Nat /\ DOMAIN pending = 1..n /\ DOMAIN pending' = 1..(n + 1)
        /\ \A i \in 1..n : pending[i] \in Requests \ {r}
    <3>1. pending \in Seq(Requests)  BY Zenon DEF ListInv, ListTypes
    <3>2. DOMAIN pending = 1..n /\ \A i \in 1..n : pending[i] \in Requests  BY <3>1
    <3>3. \A i \in 1..n : pending[i] # r  BY <1>3, <3>2, Zenon DEF Waiting
    <3> QED  BY <1>5, <2>2, <3>2, <3>3
  <2> HIDE DEF n
  <2>4. \A q \in Requests : Waiting(q)' <=> Waiting(q) \/ q = r
    <3> TAKE q \in Requests
    <3>1. Waiting(r)'
      <4>1. k \in DOMAIN pending' /\ pending'[k] = r  BY <2>2, <2>3
      <4> QED  BY <4>1, Zenon DEF Waiting
    <3>2. Waiting(q) => Waiting(q)'
      <4> SUFFICES ASSUME NEW i \in 1..n, pending[i] = q  PROVE Waiting(q)'
        BY <2>3, Zenon DEF Waiting
      <4>1. CASE i < k
        <5>1. i \in 1..(n + 1) /\ pending'[i] = q  BY <2>2, <2>3, <4>1
        <5> QED  BY <2>3, <5>1, Zenon DEF Waiting
      <4>2. CASE ~(i < k)
        <5>1. i + 1 \in 1..(n + 1) /\ ~(i + 1 < k) /\ i + 1 # k /\ (i + 1) - 1 = i
          BY <2>2, <2>3, <4>2
        <5>2. pending'[i + 1] = q  BY <2>2, <5>1
        <5> QED  BY <2>3, <5>1, <5>2, Zenon DEF Waiting
      <4> QED  BY <4>1, <4>2, Zenon
    <3>3. Waiting(q)' => Waiting(q) \/ q = r
      <4> SUFFICES ASSUME NEW i \in 1..(n + 1), pending'[i] = q, q # r  PROVE Waiting(q)
        BY <2>3, Zenon DEF Waiting
      <4>1. CASE i < k
        <5>1. i \in 1..n /\ pending[i] = q  BY <2>2, <2>3, <4>1
        <5> QED  BY <2>3, <5>1, Zenon DEF Waiting
      <4>2. CASE ~(i < k)
        <5>1. i - 1 \in 1..n /\ pending[i - 1] = q  BY <2>2, <2>3, <4>2
        <5> QED  BY <2>3, <5>1, Zenon DEF Waiting
      <4> QED  BY <4>1, <4>2, Zenon
    <3> QED  BY <3>1, <3>2, <3>3, Zenon
  <2>5. ListTypes'  BY <1>1, <2>2, Zenon DEF ListInv, ListTypes
  <2>6. InOrder'
    <3>0. \A q \in Requests : adj[q] \in Int
      <4>1. adj \in [Requests -> (-TargetOffset)..MaxMedia]  BY Zenon DEF ListInv, ListTypes
      <4> QED  BY <4>1, ClockNumbers
    <3>1. \A i, j \in 1..n : i < j => adj[pending[i]] <= adj[pending[j]]
      BY <2>3, Zenon DEF ListInv, InOrder
    <3>2. \A i, j \in 1..n : pending[i] = pending[j] => i = j
      BY <2>3, Zenon DEF ListInv, InOrder
    <3>3. ASSUME NEW i \in 1..(n + 1), NEW j \in 1..(n + 1)
          PROVE  /\ i < j => adj[pending'[i]] <= adj[pending'[j]]
                 /\ pending'[i] = pending'[j] => i = j
      <4>0. /\ pending'[i] = IF i < k THEN pending[i] ELSE IF i = k THEN r ELSE pending[i - 1]
            /\ pending'[j] = IF j < k THEN pending[j] ELSE IF j = k THEN r ELSE pending[j - 1]
        BY <2>2, Zenon
      <4>1. CASE i < k /\ j < k
        <5>1. i \in 1..n /\ j \in 1..n  BY <2>2, <2>3, <4>1
        <5> QED  BY <3>1, <3>2, <4>0, <4>1, <5>1, Zenon
      <4>2. CASE i < k /\ j = k
        <5>1. i \in 1..n /\ i \in 1..(k - 1) /\ pending[i] # r  BY <2>2, <2>3, <4>2
        <5> QED  BY <2>2, <2>3, <4>0, <4>2, <5>1
      <4>3. CASE i < k /\ k < j
        <5>1. i \in 1..n /\ j - 1 \in 1..n /\ i < j - 1
          BY <2>2, <2>3, <4>3
        <5>2. pending'[i] = pending[i] /\ pending'[j] = pending[j - 1]  BY <2>2, <4>0, <4>3
        <5>3. adj[pending[i]] <= adj[pending[j - 1]] /\ pending[i] # pending[j - 1]
          BY <2>3, <3>1, <3>2, <5>1
        <5> QED  BY <5>2, <5>3, Zenon
      <4>4. CASE i = k /\ j < k
        <5>1. j \in 1..n /\ pending[j] # r  BY <2>2, <2>3, <4>4
        <5> QED  BY <2>2, <4>0, <4>4, <5>1
      <4>5. CASE i = k /\ j = k  BY <2>2, <4>5
      <4>6. CASE i = k /\ k < j
        <5>1. j - 1 \in 1..n /\ j - 1 \in k..n /\ pending[j - 1] # r  BY <2>2, <2>3, <4>6
        <5>2. pending'[i] = r /\ pending'[j] = pending[j - 1]  BY <2>2, <4>0, <4>6
        <5> QED  BY <2>2, <5>1, <5>2, Zenon
      <4>7. CASE k < i /\ j < k
        <5>1. j \in 1..n /\ i - 1 \in 1..n /\ j < i - 1 /\ ~(i < j)  BY <2>2, <2>3, <4>7
        <5>2. pending'[j] = pending[j] /\ pending'[i] = pending[i - 1]  BY <2>2, <4>0, <4>7
        <5>3. pending[i - 1] # pending[j]  BY <2>3, <3>2, <5>1
        <5> QED  BY <5>1, <5>2, <5>3, Zenon
      <4>8. CASE k < i /\ j = k
        <5>1. i - 1 \in 1..n /\ pending[i - 1] # r /\ ~(i < j)  BY <2>2, <2>3, <4>8
        <5>2. pending'[j] = r /\ pending'[i] = pending[i - 1]  BY <2>2, <4>0, <4>8
        <5> QED  BY <5>1, <5>2, Zenon
      <4>9. CASE k < i /\ k < j
        <5>1. i - 1 \in 1..n /\ j - 1 \in 1..n /\ (i < j => i - 1 < j - 1)
          BY <2>2, <2>3, <4>9
        <5>2. pending'[i] = pending[i - 1] /\ pending'[j] = pending[j - 1]  BY <2>2, <4>0, <4>9
        <5>3. pending[i - 1] = pending[j - 1] => i = j  BY <2>3, <3>2, <5>1
        <5>4. i < j => adj[pending[i - 1]] <= adj[pending[j - 1]]  BY <3>1, <5>1, Zenon
        <5> QED  BY <5>2, <5>3, <5>4, Zenon
      <4> QED  BY <2>2, <2>3, <4>1, <4>2, <4>3, <4>4, <4>5, <4>6, <4>7, <4>8, <4>9
    <3> QED  BY <1>1, <2>3, <3>3, Zenon DEF InOrder
  <2>7. Stages'
    <3> SUFFICES ASSUME NEW q \in Requests
                 PROVE  /\ kpc'[q] \in {"a_near", "a_far", "a_slot"} => adj'[q] >= 0
                        /\ called'[q] = IF kpc'[q] \in Accepted /\ ~Waiting(q)' THEN 1 ELSE 0
                        /\ Waiting(q)' => kpc'[q] \in Accepted
      BY Zenon DEF Stages, Accepted
    <3>1. Waiting(q)' <=> Waiting(q) \/ q = r  BY <2>4, Zenon
    <3> QED  BY <1>1, <1>2, <1>3, <1>7, <3>1, Zenon DEF ListInv, Stages, Accepted
  <2>8. SlotCount'
    <3>1. Len(pending') = Len(pending) + 1  BY <2>2, Zenon DEF n
    <3> QED  BY <1>1, <1>4, <1>5, <1>7, <3>1 DEF ListInv, SlotCount
  <2> QED  BY <2>5, <2>6, <2>7, <2>8, Zenon DEF ListInv
<1> QED  BY <1>1, <1>6, <1>7, Zenon

(* A step of the worker.                                                   *)
LEMMA WorkerKeepsList ==
    ASSUME ClockTypes, ListInv, WorkerStep
    PROVE  ListInv'
<1>0. kpc \in [ClockThreads -> ClockPcs] /\ Worker \in ClockThreads /\ Worker \notin Requests
  BY ClockNumbers, Zenon DEF ClockTypes, ClockThreads
<1>1. \A p : Moves(Worker, p) => \A r \in Requests : kpc'[r] = kpc[r]
  BY <1>0, Zenon DEF Moves, ClockThreads
<1>2. CASE Woken
  <2>1. UNCHANGED listVars /\ stopping' = stopping /\ \A r \in Requests : kpc'[r] = kpc[r]
    BY <1>1, <1>2, Zenon DEF Woken, setVars
  <2> QED  BY <2>1, ListQuiet, Zenon
<1>3. CASE WorkerLock
  <2>1. stopping' = stopping /\ \A r \in Requests : kpc'[r] = kpc[r]
    BY <1>1, <1>3, Zenon DEF WorkerLock, setVars
  <2>2. UNCHANGED listVars \/ FlushLocked  BY <1>3, Zenon DEF WorkerLock
  <2> QED  BY <2>1, <2>2, ListQuiet, FlushKeeps, Zenon
<1>4. CASE WorkerTest
  <2>1. stopping' = stopping  BY <1>4, Zenon DEF WorkerTest, setVars
  <2>2. \/ /\ pending # <<>> /\ Fired({Head(pending)}) /\ freeSlots' = freeSlots + 1
           /\ pending' = Tail(pending) /\ UNCHANGED kpc
        \/ UNCHANGED listVars /\ Moves(Worker, "sleep")
    BY <1>4, Zenon DEF WorkerTest
  <2> QED  BY <1>1, <2>1, <2>2, ListQuiet, FrontKeeps, Zenon
<1>5. CASE WorkerLeave
  <2>1. UNCHANGED listVars /\ stopping' = stopping /\ \A r \in Requests : kpc'[r] = kpc[r]
    BY <1>1, <1>5, Zenon DEF WorkerLeave, setVars
  <2> QED  BY <2>1, ListQuiet, Zenon
<1> QED  BY <1>2, <1>3, <1>4, <1>5, Zenon DEF WorkerStep

(* A step of the control thread; destroyed, the clock has an empty list.   *)
LEMMA CtlKeepsList ==
    ASSUME ClockTypes, ListInv, Ended, CtlStep
    PROVE  ListInv' /\ Ended'
<1>0. kpc \in [ClockThreads -> ClockPcs] /\ Ctl \in ClockThreads /\ Ctl \notin Requests
  BY ClockNumbers, Zenon DEF ClockTypes, ClockThreads
<1>1. \A p : Moves(Ctl, p) => kpc'[Ctl] = p /\ \A r \in Requests : kpc'[r] = kpc[r]
  BY <1>0, Zenon DEF Moves, ClockThreads
<1>2. CASE CtlFlush
  <2>1. FlushLocked /\ stopping' = stopping /\ kpc' = kpc /\ kpc[Ctl] = "idle"
    BY <1>2, Zenon DEF CtlFlush, CtlCalls, InState, setVars
  <2> QED  BY <2>1, FlushKeeps, Zenon DEF Ended
<1>3. CASE ClockJoin
  <2>1. FlushLocked /\ stopping' = stopping /\ Moves(Ctl, "destroyed") /\ kpc[Ctl] = "c_join"
    BY <1>3, Zenon DEF ClockJoin, InState, setVars
  <2> QED  BY <1>1, <2>1, FlushKeeps, Zenon DEF Ended
<1>4. CASE CtlLimit
  <2>1. UNCHANGED <<pending, freeSlots, adj, called>> /\ stopping' = stopping /\ kpc' = kpc
    BY <1>4, Zenon DEF CtlLimit, listVars
  <2> QED  BY <2>1, ListQuiet, Zenon DEF Ended, listVars
<1>5. CASE ClockDestroy
  <2>1. UNCHANGED listVars /\ stopping' /\ Moves(Ctl, "c_wake")
    BY <1>5, Zenon DEF ClockDestroy
  <2> QED  BY <1>1, <2>1, ListQuiet DEF Ended
<1>6. CASE SetActive \/ CtlTime \/ SetScale \/ SetMedia \/ CtlWake
  <2>1. UNCHANGED listVars /\ stopping' = stopping
    BY <1>6, Zenon DEF SetActive, CtlTime, SetScale, SetMedia, CtlWake, setVars
  <2>2. \/ \E p \in {"idle", "c_wake", "c_scale", "c_media"} : Moves(Ctl, p)
        \/ stopping /\ Moves(Ctl, "c_join")
    <3>1. CASE SetActive \/ CtlTime \/ SetScale  BY <3>1, Zenon DEF SetActive, CtlTime, SetScale
    <3>2. CASE CtlWake  BY <3>2, Zenon DEF CtlWake
    <3>3. CASE SetMedia
      <4>1. Moves(Ctl, "c_wake") \/ Moves(Ctl, "idle")  BY <3>3, Zenon DEF SetMedia
      <4> QED  BY <4>1, Zenon
    <3> QED  BY <1>6, <3>1, <3>2, <3>3, Zenon
  <2>3. \A r \in Requests : kpc'[r] = kpc[r]  BY <1>1, <2>2, Zenon
  <2>4. kpc'[Ctl] \in {"c_join", "destroyed"} => stopping' /\ kpc'[Ctl] = "c_join"
    BY <1>1, <2>1, <2>2, Zenon
  <2> QED  BY <2>1, <2>3, <2>4, ListQuiet, Zenon DEF Ended
<1> QED  BY <1>2, <1>3, <1>4, <1>5, <1>6, Zenon DEF CtlStep

(* The time that passed moves the media time within its bounds.            *)
LEMMA AdvanceTypes ==
    ASSUME ClockTypes, NEW diff \in Elapsed, Advance(diff)
    PROVE  media' \in 0..MaxMedia /\ age' = 0
<1>1. \A m \in Int : Clip(m) \in 0..MaxMedia  BY ClockNumbers DEF Clip
<1>2. diff \in Int  BY ClockNumbers DEF Elapsed, ClockTypes
<1>3. media \in Int /\ media \in 0..MaxMedia  BY ClockNumbers DEF ClockTypes
<1>4. diff * scale \in Int  BY <1>2 DEF ClockTypes
<1>5. Clip(media + diff * scale) \in 0..MaxMedia  BY <1>1, <1>3, <1>4
<1> QED  BY <1>3, <1>5, Zenon DEF Advance

(* The state of the clock keeps its types.                                 *)
LEMMA ClockTypesKept ==
    ASSUME ~Reverse, ClockInv, ClockNext
    PROVE  ClockTypes'
<1> DEFINE Far == MaxMedia + WaitTime + TargetOffset
<1>0. ClockTypes /\ ListTypes  BY Zenon DEF ClockInv, ListInv
<1>1. /\ Far \in Nat /\ MaxMedia <= Far /\ WaitTime <= Far /\ MaxMedia + TargetOffset <= Far
      /\ {Ctl, Worker} \subseteq ClockThreads /\ Requests \subseteq ClockThreads
  BY ClockNumbers DEF ClockThreads
<1>3. UpdateLocalTime => media' \in 0..MaxMedia /\ age' \in 0..Far
  BY <1>0, <1>1, AdvanceTypes DEF UpdateLocalTime
<1>4. ASSUME NEW r \in Requests, AddStep(r)  PROVE ClockTypes'
  <2>1. CASE AddTime(r)
    <3>1. kpc' \in [ClockThreads -> ClockPcs]
      BY <1>0, <1>1, <2>1, Zenon DEF AddTime, Moves, ClockTypes, ClockPcs
    <3> QED  BY <1>0, <1>3, <2>1, <3>1, Zenon DEF AddTime, ClockTypes, setVars
  <2>2. CASE AddCheck(r)
    <3>1. kpc' \in [ClockThreads -> ClockPcs]
      BY <1>0, <1>1, <2>2, Zenon DEF AddCheck, Moves, ClockTypes, ClockPcs
    <3> QED  BY <1>0, <2>2, <3>1, Zenon DEF AddCheck, ClockTypes, setVars, timeVars
  <2>3. CASE AddSlot(r)
    <3>1. kpc' \in [ClockThreads -> ClockPcs]
      BY <1>0, <1>1, <2>3, Zenon DEF AddSlot, Moves, ClockTypes, ClockPcs
    <3> QED  BY <1>0, <2>3, <3>1, Zenon DEF AddSlot, ClockTypes, setVars, timeVars
  <2>4. CASE AddInsert(r)
    <3>1. kpc' \in [ClockThreads -> ClockPcs]
      BY <1>0, <1>1, <2>4, Zenon DEF AddInsert, Moves, ClockTypes, ClockPcs
    <3> QED  BY <1>0, <2>4, <3>1, Zenon DEF AddInsert, ClockTypes, setVars, timeVars
  <2>5. CASE AddWake(r)
    <3>1. kpc' \in [ClockThreads -> ClockPcs]
      BY <1>0, <1>1, <2>5, Zenon DEF AddWake, Moves, ClockTypes, ClockPcs
    <3> QED  BY <1>0, <2>5, <3>1 DEF AddWake, ClockTypes, setVars, timeVars
  <2> QED  BY <1>4, <2>1, <2>2, <2>3, <2>4, <2>5, Zenon DEF AddStep
<1>5. CASE WorkerStep
  <2>1. CASE Woken
    <3>1. kpc' \in [ClockThreads -> ClockPcs]
      BY <1>0, <1>1, <2>1, Zenon DEF Woken, Moves, ClockTypes, ClockPcs
    <3> QED  BY <1>0, <2>1, <3>1 DEF Woken, ClockTypes, setVars, timeVars
  <2>2. CASE WorkerLock
    <3>1. kpc' \in [ClockThreads -> ClockPcs]
      BY <1>0, <1>1, <2>2, Zenon DEF WorkerLock, Moves, ClockTypes, ClockPcs
    <3>2. media' \in 0..MaxMedia /\ age' \in 0..Far /\ atTimer' \in 0..MaxMedia
      <4>1. CASE atTimer = 0  BY <1>0, <2>2, <4>1, Zenon DEF WorkerLock, timeVars, ClockTypes
      <4>2. CASE atTimer # 0
        <5>1. PICK diff \in Elapsed : Advance(diff)  BY <2>2, <4>2, Zenon DEF WorkerLock
        <5>2. media' \in 0..MaxMedia /\ age' = 0  BY <1>0, <5>1, AdvanceTypes, Zenon
        <5>3. atTimer' = atTimer \/ atTimer' = 0  BY <2>2, <4>2, Zenon DEF WorkerLock, FlushLocked
        <5> QED  BY <1>0, <1>1, <5>2, <5>3, ClockNumbers DEF ClockTypes
      <4> QED  BY <4>1, <4>2, Zenon
    <3> QED  BY <1>0, <1>1, <2>2, <3>1, <3>2, Zenon DEF WorkerLock, ClockTypes, setVars
  <2>3. CASE WorkerTest
    <3> DEFINE next == Head(pending)
    <3>1. PICK diff \in Elapsed :
             /\ Advance(diff)
             /\ \/ UNCHANGED <<timer, atTimer, clockLock, kpc>>
                \/ /\ timer' = IF scale = 0 THEN WaitTime ELSE Magnitude(media' - adj[next])
                   /\ atTimer' = media' /\ clockLock' = Unset /\ Moves(Worker, "sleep")
      BY <2>3, Zenon DEF WorkerTest
    <3>2. media' \in 0..MaxMedia /\ age' = 0  BY <1>0, <3>1, AdvanceTypes, Zenon
    <3>3. kpc' \in [ClockThreads -> ClockPcs]
      BY <1>0, <1>1, <3>1, Zenon DEF Moves, ClockTypes, ClockPcs
    <3>4. next \in Requests
      <4>1. pending \in Seq(Requests) /\ pending # <<>>
        BY <1>0, <2>3, Zenon DEF WorkerTest, ListTypes
      <4> QED  BY <4>1
    <3>5. adj[next] \in (-TargetOffset)..MaxMedia  BY <1>0, <3>4, Zenon DEF ListTypes
    <3> HIDE DEF next
    <3>6. Magnitude(media' - adj[next]) \in 0..Far
      BY <1>1, <3>2, <3>5, ClockNumbers DEF Magnitude
    <3>7. timer' \in 0..Far \cup {Unset}
      BY <1>0, <1>1, <3>1, <3>6, ClockNumbers DEF ClockTypes
    <3>8. UNCHANGED <<setVars, event, kops>>  BY <2>3, Zenon DEF WorkerTest
    <3> QED  BY <1>0, <1>1, <3>1, <3>2, <3>3, <3>7, <3>8 DEF ClockTypes, setVars
  <2>4. CASE WorkerLeave
    <3>1. kpc' \in [ClockThreads -> ClockPcs]
      BY <1>0, <1>1, <2>4, Zenon DEF WorkerLeave, Moves, ClockTypes, ClockPcs
    <3> QED  BY <1>0, <2>4, <3>1, Zenon DEF WorkerLeave, ClockTypes, setVars, timeVars
  <2> QED  BY <1>5, <2>1, <2>2, <2>3, <2>4, Zenon DEF WorkerStep
<1>6. CASE CtlStep
  <2>0. CtlCalls => kops' \in 0..MaxOps  BY <1>0, ClockNumbers DEF CtlCalls, ClockTypes
  <2>1. CASE SetActive
    <3>1. kpc' \in [ClockThreads -> ClockPcs]
      BY <1>0, <1>1, <2>1, Zenon DEF SetActive, Moves, ClockTypes, ClockPcs
    <3> QED  BY <1>0, <2>0, <2>1, <3>1, Zenon DEF SetActive, ClockTypes, timeVars
  <2>2. CASE CtlFlush
    <3>1. atTimer' \in 0..MaxMedia  BY <2>2, ClockNumbers DEF CtlFlush, FlushLocked
    <3> QED  BY <1>0, <2>0, <2>2, <3>1, Zenon DEF CtlFlush, ClockTypes, setVars, timeVars
  <2>3. CASE CtlLimit  BY <1>0, <2>0, <2>3, Zenon DEF CtlLimit, ClockTypes, timeVars
  <2>4. CASE CtlTime
    <3>1. kpc' \in [ClockThreads -> ClockPcs]
      BY <1>0, <1>1, <2>4, Zenon DEF CtlTime, Moves, ClockTypes, ClockPcs
    <3> QED  BY <1>0, <1>3, <2>0, <2>4, <3>1, Zenon DEF CtlTime, ClockTypes, setVars
  <2>5. CASE SetScale
    <3>1. kpc' \in [ClockThreads -> ClockPcs]
      BY <1>0, <1>1, <2>5, Zenon DEF SetScale, Moves, ClockTypes, ClockPcs
    <3> QED  BY <1>0, <2>5, <3>1, Zenon DEF SetScale, ClockTypes, timeVars
  <2>6. CASE SetMedia
    <3>1. PICK ref \in Times :
            LET diff == media - ref
                ave  == (63 * average + diff) \div 64
            IN  \/ media' = ref /\ average' = 0 /\ Moves(Ctl, "c_wake")
                \/ media' = Clip(media - ave) /\ average' = 0 /\ Moves(Ctl, "c_wake")
                \/ average' = ave /\ Moves(Ctl, "idle") /\ UNCHANGED media
      BY <2>6, Zenon DEF SetMedia
    <3>2. kpc' \in [ClockThreads -> ClockPcs]
      BY <1>0, <1>1, <3>1, Zenon DEF Moves, ClockTypes, ClockPcs
    <3>3. ref \in 0..MaxMedia /\ ref \in Int  BY ClockNumbers
    <3>4. media \in 0..MaxMedia /\ media \in Int /\ average \in Int
      BY <1>0, ClockNumbers DEF ClockTypes
    <3>5. (63 * average + (media - ref)) \div 64 \in Int  BY <3>3, <3>4
    <3>6. \A m \in Int : Clip(m) \in 0..MaxMedia  BY ClockNumbers DEF Clip
    <3>7. media' \in 0..MaxMedia /\ average' \in Int  BY <3>1, <3>3, <3>4, <3>5, <3>6
    <3>8. UNCHANGED <<age, disc, listVars, scale, active, limitOn, stopping, timer, atTimer,
                      event, clockLock, kops>>
      BY <2>6, Zenon DEF SetMedia
    <3> QED  BY <1>0, <3>2, <3>7, <3>8, Zenon DEF ClockTypes
  <2>7. CASE CtlWake
    <3>1. kpc' \in [ClockThreads -> ClockPcs]
      BY <1>0, <1>1, <2>7, Zenon DEF CtlWake, Moves, ClockTypes, ClockPcs
    <3> QED  BY <1>0, <2>7, <3>1 DEF CtlWake, ClockTypes, setVars, timeVars
  <2>8. CASE ClockDestroy
    <3>1. kpc' \in [ClockThreads -> ClockPcs]
      BY <1>0, <1>1, <2>8, Zenon DEF ClockDestroy, Moves, ClockTypes, ClockPcs
    <3> QED  BY <1>0, <2>8, <3>1, Zenon DEF ClockDestroy, ClockTypes, timeVars
  <2>9. CASE ClockJoin
    <3>1. kpc' \in [ClockThreads -> ClockPcs]
      BY <1>0, <1>1, <2>9, Zenon DEF ClockJoin, Moves, ClockTypes, ClockPcs
    <3>2. atTimer' \in 0..MaxMedia  BY <2>9, ClockNumbers DEF ClockJoin, FlushLocked
    <3> QED  BY <1>0, <2>9, <3>1, <3>2, Zenon DEF ClockJoin, ClockTypes, setVars, timeVars
  <2> QED  BY <1>6, <2>1, <2>2, <2>3, <2>4, <2>5, <2>6, <2>7, <2>8, <2>9, Zenon DEF CtlStep
<1>7. CASE TimerFires
  <2>1. age' \in 0..Far  BY <1>0, <1>7, Zenon DEF TimerFires, ClockTypes
  <2>2. timer' = Unset /\ event' = event + 1  BY <1>7, Zenon DEF TimerFires
  <2> QED  BY <1>0, <1>7, <2>1, <2>2 DEF TimerFires, ClockTypes, setVars
<1> QED  BY <1>4, <1>5, <1>6, <1>7, Zenon DEF ClockNext

(* Every step of the clock keeps what is known of its list.                *)
THEOREM ClockInvariance ==
    ASSUME ~Reverse
    PROVE  ClockSpec => []ClockInv
<1>1. ClockInit => ClockInv
  <2> SUFFICES ASSUME ClockInit  PROVE ClockInv
    BY Zenon
  <2>1. ClockTypes
    <3>1. kpc \in [ClockThreads -> ClockPcs]  BY Zenon DEF ClockInit, ClockPcs
    <3>2. /\ 0 \in 0..MaxMedia /\ 0 \in 0..(MaxMedia + WaitTime + TargetOffset)
          /\ MaxOps \in 0..MaxOps
      BY ClockNumbers
    <3>3. /\ media = 0 /\ average = 0 /\ age = 0 /\ scale = 1 /\ active = TRUE
          /\ timer = Unset /\ atTimer = 0 /\ limitOn = FALSE
          /\ event = 0 /\ stopping = FALSE /\ clockLock = Unset /\ kops = MaxOps
      BY Zenon DEF ClockInit
    <3>4. active \in BOOLEAN /\ stopping \in BOOLEAN /\ limitOn \in BOOLEAN  BY <3>3, Zenon
    <3>5. average \in Int /\ scale \in {0, 1} /\ event \in Nat  BY <3>3
    <3>6. /\ timer \in 0..(MaxMedia + WaitTime + TargetOffset) \cup {Unset}
          /\ clockLock \in ClockThreads \cup {Unset}
      BY <3>3, Zenon
    <3> QED  BY <3>1, <3>2, <3>3, <3>4, <3>5, <3>6, Zenon DEF ClockTypes
  <2>2. ListTypes /\ InOrder  BY ClockNumbers DEF ClockInit, ListTypes, InOrder
  <2>3. \A t \in ClockThreads : kpc[t] \in {"idle", "sleep"}  BY Zenon DEF ClockInit
  <2>4. Inserting = {}  BY <2>3, Zenon DEF Inserting, InState, ClockThreads
  <2>5. SlotCount
    <3>1. IsFiniteSet({}) /\ Cardinality({}) = 0  BY FS_EmptySet, Zenon
    <3>2. Len(pending) = 0 /\ freeSlots = Slots  BY Zenon DEF ClockInit
    <3> QED  BY <2>4, <3>1, <3>2, ClockNumbers DEF SlotCount
  <2>6. Stages
    <3>1. \A r \in Requests : called[r] = 0 /\ adj[r] = 0 /\ ~Waiting(r)
      BY DEF ClockInit, Waiting
    <3> QED  BY <2>3, <3>1, Zenon DEF Stages, Accepted, ClockThreads
  <2>7. Ended  BY <2>3, Zenon DEF Ended, ClockThreads
  <2> QED  BY <2>1, <2>2, <2>5, <2>6, <2>7, Zenon DEF ClockInv, ListInv
<1>2. ClockInv /\ [ClockNext]_clockVars => ClockInv'
  <2> SUFFICES ASSUME ClockInv, [ClockNext]_clockVars  PROVE ClockInv'
    BY Zenon
  <2>0. ClockTypes /\ ListInv /\ Ended  BY Zenon DEF ClockInv
  <2>1. CASE UNCHANGED clockVars
    <3>1. ClockTypes' /\ Ended' /\ UNCHANGED listVars /\ kpc' = kpc /\ stopping' = stopping
      BY <2>0, <2>1, Zenon DEF clockVars, listVars, ClockTypes, Ended
    <3> QED  BY <2>0, <3>1, ListQuiet, Zenon DEF ClockInv
  <2>2. CASE ClockNext
    <3>0. ClockTypes'  BY <2>2, ClockTypesKept, Zenon
    <3>1. ASSUME NEW r \in Requests, AddStep(r)  PROVE ListInv' /\ Ended'
      <4>1. ListInv'
        BY <2>0, <3>1, AddTimeKeeps, AddMovesKeeps, AddSlotKeeps, AddInsertKeeps, Zenon DEF AddStep
      <4>2. kpc \in [ClockThreads -> ClockPcs] /\ r # Ctl /\ Ctl \in ClockThreads
        BY <2>0, ClockNumbers, Zenon DEF ClockTypes, ClockThreads
      <4>3. kpc'[Ctl] = kpc[Ctl] /\ stopping' = stopping
        BY <3>1, <4>2, Zenon
           DEF AddStep, AddTime, AddCheck, AddSlot, AddInsert, AddWake, Moves, setVars
      <4>4. stopping => pending' = pending
        BY <3>1, Zenon DEF AddStep, AddTime, AddCheck, AddSlot, AddInsert, AddWake, listVars
      <4> QED  BY <2>0, <4>1, <4>3, <4>4, Zenon DEF Ended
    <3>2. CASE WorkerStep
      <4>1. ListInv'  BY <2>0, <3>2, WorkerKeepsList, Zenon
      <4>2. kpc \in [ClockThreads -> ClockPcs] /\ Worker # Ctl /\ Ctl \in ClockThreads
        BY <2>0, ClockNumbers, Zenon DEF ClockTypes, ClockThreads
      <4>3. kpc'[Ctl] = kpc[Ctl] /\ stopping' = stopping
        BY <3>2, <4>2, Zenon
           DEF WorkerStep, Woken, WorkerLock, WorkerTest, WorkerLeave, Moves, setVars
      <4>4. pending = <<>> => pending' = <<>>
        BY <3>2, Zenon
           DEF WorkerStep, Woken, WorkerLock, WorkerTest, WorkerLeave, listVars, FlushLocked
      <4>5. Ended'  BY <2>0, <4>3, <4>4, Zenon DEF Ended
      <4> QED  BY <3>0, <4>1, <4>5, Zenon DEF ClockInv
    <3>3. CASE CtlStep  BY <2>0, <3>0, <3>3, CtlKeepsList, Zenon DEF ClockInv
    <3>4. CASE TimerFires
      <4>1. UNCHANGED listVars /\ kpc' = kpc /\ stopping' = stopping
        BY <3>4, Zenon DEF TimerFires, setVars
      <4>2. ListInv'  BY <2>0, <4>1, ListQuiet, Zenon
      <4>3. Ended'  BY <2>0, <4>1, Zenon DEF Ended, listVars
      <4> QED  BY <3>0, <4>2, <4>3, Zenon DEF ClockInv
    <3> QED  BY <2>2, <3>0, <3>1, <3>2, <3>3, <3>4, Zenon DEF ClockNext, ClockInv
  <2> QED  BY <2>1, <2>2, Zenon
<1> QED  BY <1>1, <1>2, PTL DEF ClockSpec

(* Requests of a clock whose scale is never negative, for any set of       *)
(* requests and however many are added at a time: no slot is lost while    *)
(* the clock runs, an accepted request is called once and by               *)
(* mmal_clock_destroy at the latest, and "Earliest request is always at    *)
(* the front".                                                             *)
THEOREM RequestsAreKept ==
    ASSUME ~Reverse
    PROVE  ClockSpec => []RequestsKept
<1>1. ClockInv => RequestsKept
  <2> SUFFICES ASSUME ClockInv  PROVE RequestsKept
    BY Zenon
  <2>0. ClockTypes /\ ListTypes /\ InOrder /\ Stages /\ SlotCount /\ Ended
    BY Zenon DEF ClockInv, ListInv
  <2>1. Cardinality(Inserting) \in Nat /\ Len(pending) \in Nat /\ freeSlots \in Nat
    BY <2>0, FS_CardinalityType DEF SlotCount, ListTypes
  <2>2. ClockTypeOK
    <3>1. Len(pending) <= Slots /\ freeSlots \in 0..Slots
      BY <2>0, <2>1, ClockNumbers DEF SlotCount
    <3> QED  BY <2>0, <3>1, Zenon DEF ClockTypeOK, ClockTypes, ListTypes
  <2>3. SlotsKept  BY <2>0, Zenon DEF SlotsKept, SlotCount, Inserting
  <2>4. CalledOnce
    <3>1. \A r \in Requests : called[r] = IF kpc[r] \in Accepted /\ ~Waiting(r) THEN 1 ELSE 0
      BY <2>0, Zenon DEF Stages
    <3>2. InState(Ctl, "destroyed") => \A r \in Requests : ~Waiting(r)
      BY <2>0 DEF Ended, InState, Waiting
    <3> QED  BY <3>1, <3>2 DEF CalledOnce, Accepted
  <2>5. EarliestInFront
    <3>1. \A i \in DOMAIN pending : adj[pending[i]] \in Int
      <4>1. /\ \A i \in DOMAIN pending : pending[i] \in Requests
            /\ adj \in [Requests -> (-TargetOffset)..MaxMedia]
        BY <2>0 DEF ListTypes
      <4> QED  BY <4>1, ClockNumbers
    <3>2. scale >= 0  BY <2>0 DEF ClockTypes
    <3> QED  BY <2>0, <3>1, <3>2 DEF EarliestInFront, Earlier, InOrder
  <2> QED  BY <2>2, <2>3, <2>4, <2>5, Zenon DEF RequestsKept
<1> QED  BY <1>1, ClockInvariance, PTL
=============================================================================
