---------------------------- MODULE MmalComponent ---------------------------
(***************************************************************************)
(* The life of components: core/mmal_component.c with the references that  *)
(* mmal_port_payload_alloc takes on a component's ports (mmal_port.c).     *)
(*                                                                         *)
(* Any number of threads create components, acquire and release references *)
(* to them, and allocate and free payloads.  Each step below is the code   *)
(* between two points where the component's mutex is free; what a thread   *)
(* decides under the mutex and does after it is two steps.                 *)
(***************************************************************************)
EXTENDS Integers, FiniteSets

CONSTANTS
    Comps,        \* components; each is created at most once
    Refs,         \* names for references and payloads (a bound on their number)
    CompThreads,  \* client threads
    NoComp,       \* the component of an idle thread
    CompFaults    \* which of "alloc", "construct", "destroy", "disable" may fail

ASSUME CompAssumption == IsFiniteSet(Refs) /\ IsFiniteSet(Comps) /\ NoComp \notin Comps

VARIABLES
    cstate,     \* "none", "building", "live", "dead", or lost after a failure:
                \* "unmade" (never allocated), "stuck" (pf_destroy failed)
    crefs,      \* per component: references held by clients
    prefs,      \* per component: payloads allocated from its ports
    refcount, refcountPorts, destructionPending,
    portsOn,    \* per component: some port is enabled
    coreRefs,   \* mmal_core_refcount
    cpc, ccomp  \* per thread: position, component worked on

compVars == <<cstate, crefs, prefs, refcount, refcountPorts, destructionPending,
              portsOn, coreRefs, cpc, ccomp>>

CompTypeOK ==
    /\ cstate \in [Comps -> {"none", "building", "live", "dead", "unmade", "stuck"}]
    /\ crefs \in [Comps -> SUBSET Refs] /\ prefs \in [Comps -> SUBSET Refs]
    /\ refcount \in [Comps -> Int] /\ refcountPorts \in [Comps -> Int]
    /\ destructionPending \in [Comps -> BOOLEAN] /\ portsOn \in [Comps -> BOOLEAN]
    /\ coreRefs \in Int
    /\ cpc \in [CompThreads -> {"idle", "build", "ports", "check", "destroy"}]
    /\ ccomp \in [CompThreads -> Comps \cup {NoComp}]
    /\ \A t \in CompThreads : cpc[t] # "idle" => ccomp[t] \in Comps

CompInit ==
    /\ cstate = [c \in Comps |-> "none"]
    /\ crefs = [c \in Comps |-> {}] /\ prefs = [c \in Comps |-> {}]
    /\ refcount = [c \in Comps |-> 0] /\ refcountPorts = [c \in Comps |-> 0]
    /\ destructionPending = [c \in Comps |-> FALSE]
    /\ portsOn = [c \in Comps |-> FALSE]
    /\ coreRefs = 0
    /\ cpc = [t \in CompThreads |-> "idle"]
    /\ ccomp = [t \in CompThreads |-> NoComp]

At(t, pc, c) == cpc' = [cpc EXCEPT ![t] = pc] /\ ccomp' = [ccomp EXCEPT ![t] = c]

Idle(t) == At(t, "idle", NoComp)

(***************************************************************************)
(* mmal_component_create_core                                              *)
(***************************************************************************)
(* mmal_core_init comes first; when the memory or the mutex of the         *)
(* component cannot be had, the function returns without undoing it.       *)
Create(t, c) ==
    /\ cpc[t] = "idle" /\ cstate[c] = "none"
    /\ coreRefs' = coreRefs + 1
    /\ \/ cstate' = [cstate EXCEPT ![c] = "building"] /\ At(t, "build", c)
       \/ /\ "alloc" \in CompFaults
          /\ cstate' = [cstate EXCEPT ![c] = "unmade"] /\ UNCHANGED <<cpc, ccomp>>
    /\ UNCHANGED <<crefs, prefs, refcount, refcountPorts, destructionPending, portsOn>>

(* The constructor has run and the reference r goes to the client, or a    *)
(* failure leads to mmal_component_destroy_internal.                       *)
Construct(t, r) ==
    LET c == ccomp[t] IN
    /\ cpc[t] = "build"
    /\ \/ /\ cstate' = [cstate EXCEPT ![c] = "live"]
          /\ crefs' = [crefs EXCEPT ![c] = {r}]
          /\ refcount' = [refcount EXCEPT ![c] = 1]
          /\ Idle(t)
       \/ /\ "construct" \in CompFaults
          /\ At(t, "destroy", c)
          /\ UNCHANGED <<cstate, crefs, refcount>>
    /\ UNCHANGED <<prefs, refcountPorts, destructionPending, portsOn, coreRefs>>

(***************************************************************************)
(* References.  A client acquires one, or a payload, through one it has.   *)
(***************************************************************************)
Acquire(t, c, r) ==
    /\ cpc[t] = "idle" /\ crefs[c] # {} /\ r \notin crefs[c]
    /\ crefs' = [crefs EXCEPT ![c] = @ \cup {r}]
    /\ refcount' = [refcount EXCEPT ![c] = @ + 1]
    /\ UNCHANGED <<cstate, prefs, refcountPorts, destructionPending, portsOn, coreRefs,
                   cpc, ccomp>>

PayloadAlloc(t, c, r) ==
    /\ cpc[t] = "idle" /\ crefs[c] # {} /\ r \notin prefs[c]
    /\ prefs' = [prefs EXCEPT ![c] = @ \cup {r}]
    /\ refcountPorts' = [refcountPorts EXCEPT ![c] = @ + 1]
    /\ UNCHANGED <<cstate, crefs, refcount, destructionPending, portsOn, coreRefs,
                   cpc, ccomp>>

PortEnable(t, c) ==
    /\ cpc[t] = "idle" /\ crefs[c] # {} /\ ~ portsOn[c]
    /\ portsOn' = [portsOn EXCEPT ![c] = TRUE]
    /\ UNCHANGED <<cstate, crefs, prefs, refcount, refcountPorts, destructionPending,
                   coreRefs, cpc, ccomp>>

(* mmal_component_release_internal, up to the first unlock.                *)
Release(t, c, r) ==
    /\ cpc[t] = "idle" /\ r \in crefs[c]
    /\ crefs' = [crefs EXCEPT ![c] = @ \ {r}]
    /\ refcount' = [refcount EXCEPT ![c] = @ - 1]
    /\ IF refcount'[c] # 0
       THEN UNCHANGED <<destructionPending, cpc, ccomp>>
       ELSE /\ destructionPending' = [destructionPending EXCEPT ![c] = TRUE]
            /\ At(t, "ports", c)
    /\ UNCHANGED <<cstate, prefs, refcountPorts, portsOn, coreRefs>>

(* Its ports are disabled and disconnected; failures are ignored.          *)
DisablePorts(t) ==
    /\ cpc[t] = "ports"
    /\ \/ portsOn' = [portsOn EXCEPT ![ccomp[t]] = FALSE]
       \/ "disable" \in CompFaults /\ UNCHANGED portsOn
    /\ At(t, "check", ccomp[t])
    /\ UNCHANGED <<cstate, crefs, prefs, refcount, refcountPorts, destructionPending,
                   coreRefs>>

(* Mutants: the payloads are not looked at; ports that would not go are    *)
(* tried again.                                                            *)
MutCheckNoPayloads(t) ==
    /\ cpc[t] = "check" /\ At(t, "destroy", ccomp[t])
    /\ UNCHANGED <<cstate, crefs, prefs, refcount, refcountPorts, destructionPending, portsOn,
                   coreRefs>>
MutCheckAgain(t) ==
    LET c == ccomp[t] IN
    /\ cpc[t] = "check"
    /\ IF portsOn[c] THEN At(t, "ports", c) /\ UNCHANGED destructionPending
       ELSE IF refcountPorts[c] # 0
       THEN /\ destructionPending' = [destructionPending EXCEPT ![c] = FALSE]
            /\ Idle(t)
       ELSE At(t, "destroy", c) /\ UNCHANGED destructionPending
    /\ UNCHANGED <<cstate, crefs, prefs, refcount, refcountPorts, portsOn, coreRefs>>

(* The second time under the mutex: leave it to the last payload, or       *)
(* destroy the component.                                                  *)
CheckPorts(t) ==
    LET c == ccomp[t] IN
    /\ cpc[t] = "check"
    /\ IF refcountPorts[c] # 0
       THEN /\ destructionPending' = [destructionPending EXCEPT ![c] = FALSE]
            /\ Idle(t)
       ELSE At(t, "destroy", c) /\ UNCHANGED destructionPending
    /\ UNCHANGED <<cstate, crefs, prefs, refcount, refcountPorts, portsOn, coreRefs>>

(* mmal_port_payload_free and mmal_port_release                            *)
PayloadFree(t, c, r) ==
    /\ cpc[t] = "idle" /\ r \in prefs[c]
    /\ prefs' = [prefs EXCEPT ![c] = @ \ {r}]
    /\ refcountPorts' = [refcountPorts EXCEPT ![c] = @ - 1]
    /\ IF refcountPorts'[c] # 0 \/ refcount[c] # 0 \/ destructionPending[c]
       THEN UNCHANGED <<cpc, ccomp>>
       ELSE At(t, "destroy", c)
    /\ UNCHANGED <<cstate, crefs, refcount, destructionPending, portsOn, coreRefs>>

(* mmal_component_destroy_internal.  When pf_destroy fails the rest is     *)
(* left undone.                                                            *)
Destroy(t) ==
    LET c == ccomp[t] IN
    /\ cpc[t] = "destroy"
    /\ \/ cstate' = [cstate EXCEPT ![c] = "dead"] /\ coreRefs' = coreRefs - 1
       \/ /\ "destroy" \in CompFaults
          /\ cstate' = [cstate EXCEPT ![c] = "stuck"] /\ UNCHANGED coreRefs
    /\ Idle(t)
    /\ UNCHANGED <<crefs, prefs, refcount, refcountPorts, destructionPending, portsOn>>

CompStep(t) ==
    \/ \E c \in Comps :
          \/ Create(t, c) \/ PortEnable(t, c)
          \/ \E r \in Refs : Acquire(t, c, r) \/ PayloadAlloc(t, c, r)
                             \/ Release(t, c, r) \/ PayloadFree(t, c, r)
    \/ \E r \in Refs : Construct(t, r)
    \/ DisablePorts(t) \/ CheckPorts(t) \/ Destroy(t)

CompNext == \E t \in CompThreads : CompStep(t)

(* A thread finishes the call it is in, and clients free their payloads.   *)
CompFairness ==
    /\ \A t \in CompThreads : WF_compVars(CompStep(t) /\ cpc[t] # "idle")
    /\ \A c \in Comps, r \in Refs :
          WF_compVars(\E t \in CompThreads : PayloadFree(t, c, r))

CompSpec == CompInit /\ [][CompNext]_compVars

FairCompSpec == CompSpec /\ CompFairness

(***************************************************************************)
(* Properties                                                              *)
(***************************************************************************)
Destroying(c, pcs) == {t \in CompThreads : cpc[t] \in pcs /\ ccomp[t] = c}

(* "Acquiring a reference on a component will prevent a component from     *)
(* being destroyed until the acquired reference is released"               *)
(* (mmal_component.h 102), and a payload keeps the component of its port   *)
(* (mmal_port.c 1102): while a reference or a payload exists the component *)
(* is alive and nobody has decided to destroy it.                          *)
LiveWhileReferenced ==
    \A c \in Comps : crefs[c] \cup prefs[c] # {} =>
        cstate[c] = "live" /\ Destroying(c, {"destroy"}) = {}

(* One thread at most takes a component down, between a release and a      *)
(* payload free that both saw a last reference go; it works on a component *)
(* that still exists.                                                      *)
DestroyedOnce ==
    \A c \in Comps :
        \A t, u \in Destroying(c, {"build", "ports", "check", "destroy"}) :
            t = u /\ cstate[c] \in {"building", "live"}

(* A component nobody refers to any more is being taken down by a thread:  *)
(* the decision is never left to nobody by the two places that make it.    *)
NoOrphan ==
    \A c \in Comps :
        cstate[c] = "live" /\ crefs[c] \cup prefs[c] = {} =>
            Destroying(c, {"ports", "check", "destroy"}) # {}

(* The MMAL core is initialised while a component exists: mmal_core_init   *)
(* and mmal_core_deinit balance, except for the creations and              *)
(* destructions that failed, which keep it initialised for ever.           *)
CoreCounted ==
    coreRefs = Cardinality({c \in Comps : cstate[c] \notin {"none", "dead"}})

(* The ports that mmal_component_release_internal has disabled stay        *)
(* disabled until pf_destroy: no client can enable one in between.         *)
PortsStayDisabled ==
    [][\A c \in Comps :
          Destroying(c, {"check", "destroy"}) # {} => (portsOn'[c] => portsOn[c])]_compVars

(* A component nobody has a reference to is destroyed in the end, if       *)
(* clients free the payloads they hold.                                    *)
DestroyedInTheEnd ==
    \A c \in Comps :
        cstate[c] = "live" /\ crefs[c] = {} ~> cstate[c] \in {"dead", "stuck"}

(* The life of a component, whoever drops the last reference: it lives     *)
(* while it is referred to, is taken down by one thread and never          *)
(* forgotten, and the core goes with the last one.                         *)
DestructionSafe ==
    /\ CompTypeOK /\ LiveWhileReferenced /\ DestroyedOnce /\ NoOrphan /\ CoreCounted
=============================================================================
