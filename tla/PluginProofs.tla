---------------------------- MODULE PluginProofs -----------------------------
(***************************************************************************)
(* The handler of SIGINT stops and unmaps what main has started, wherever  *)
(* main was: proofs about the module Plugins, for every command line.      *)
(***************************************************************************)
EXTENDS Plugins, FiniteSetTheorems, TLAPS

-----------------------------------------------------------------------------
(* Start and end of the program.  The first n inputs or outputs of the     *)
(* command line.                                                           *)
Ins(n) == {<<"in", i>> : i \in 1 .. n}
Outs(n) == {<<"out", i>> : i \in 1 .. n}
InCount == Len(cmdline.ins)
OutCount == Len(cmdline.outs)
All == Plugged(cmdline)
Holder(p) == worker[IdOf(cmdline, p)]

(* A thread id variable holds the id of a plugin that keeps its id there.  *)
PluginTypes ==
    /\ cmdline \in CommandLines /\ early \in BOOLEAN
    /\ mainPc \in Starting \cup Ending \cup {"pause", "exited"}
    /\ stopFn \subseteq All /\ living \subseteq All /\ cancelled \subseteq All
    /\ stopCalls \in [All -> 0 .. 1] /\ wild \subseteq {"stop", "cancel"}
    /\ DOMAIN maps = {Lib(p) : p \in All}
    /\ DOMAIN worker = {IdOf(cmdline, p) : p \in All}
    /\ \A v \in DOMAIN worker :
          worker[v] # NoThread => worker[v] \in All /\ IdOf(cmdline, worker[v]) = v

(* The index of the loop main or its handler is in.                        *)
Position ==
    /\ mainPc \in {"mutexes", "inopen", "ininit", "runin", "stopin", "closein"} =>
          nthPlugin \in 1 .. InCount
    /\ mainPc \in {"outopen", "outinit", "runout", "stopout", "closeout"} =>
          nthPlugin \in 1 .. OutCount

(* The plugins that are loaded.  The handler closes libraries only when it *)
(* has called every stop function, so every one was loaded.                *)
Loading ==
    /\ mainPc \in {"mutexes", "inopen"} => stopFn = Ins(nthPlugin - 1)
    /\ mainPc = "ininit" => stopFn = Ins(nthPlugin)
    /\ mainPc = "outopen" => stopFn = Ins(InCount) \cup Outs(nthPlugin - 1)
    /\ mainPc = "outinit" => stopFn = Ins(InCount) \cup Outs(nthPlugin)
    /\ mainPc \in {"runin", "runout", "pause", "closein", "closeout"} => stopFn = All
    /\ mainPc \in {"stopin", "stopout"} /\ ~early => stopFn = All
    /\ mainPc = "stopin" => Ins(nthPlugin - 1) \subseteq stopFn
    /\ mainPc = "stopout" => Ins(InCount) \cup Outs(nthPlugin - 1) \subseteq stopFn

(* The mutexes that are initialised and destroyed.                         *)
MutexStates ==
    /\ mainPc = "mutexes" => synced = 1 .. nthPlugin - 1
    /\ mainPc \in {"inopen", "ininit"} => synced = 1 .. nthPlugin
    /\ mainPc \in {"outopen", "outinit", "runin", "runout", "pause"} => synced = 1 .. InCount
    /\ mainPc \in Ending /\ ~early => synced = 1 .. InCount
    /\ mainPc \in Starting \cup {"pause", "stopin"} => destroyed = {}
    /\ mainPc = "stopout" => destroyed = 1 .. nthPlugin - 1
    /\ mainPc \in {"closein", "closeout"} => destroyed = 1 .. OutCount

(* A plugin that was run finds an id in its variable; an output finds its  *)
(* own or that of a later output.                                          *)
ThreadIds ==
    LET started == mainPc = "pause" \/ (mainPc \in Ending /\ ~early)
        LaterOf(j) == {<<"out", k>> : k \in j .. OutCount}
    IN  /\ mainPc = "runin" => \A i \in 1 .. nthPlugin - 1 : Holder(<<"in", i>>) # NoThread
        /\ mainPc = "runout" \/ started =>
              \A i \in 1 .. InCount : Holder(<<"in", i>>) # NoThread
        /\ mainPc = "runout" =>
              \A j \in 1 .. nthPlugin - 1 : Holder(<<"out", j>>) \in LaterOf(j)
        /\ started => \A j \in 1 .. OutCount : Holder(<<"out", j>>) \in LaterOf(j)

(* What the handler has called and cancelled.                              *)
Stops ==
    /\ mainPc \in Starting \cup {"pause"} =>
          early = FALSE /\ \A p \in All : stopCalls[p] = 0
    /\ mainPc = "stopin" =>
          /\ \A i \in nthPlugin .. InCount : stopCalls[<<"in", i>>] = 0
          /\ \A j \in 1 .. OutCount : stopCalls[<<"out", j>>] = 0
    /\ mainPc = "stopout" => \A j \in nthPlugin .. OutCount : stopCalls[<<"out", j>>] = 0
    /\ mainPc = "stopin" /\ ~early =>
          \A i \in 1 .. nthPlugin - 1 : Holder(<<"in", i>>) \in cancelled
    /\ mainPc \in {"stopout", "closein", "closeout"} /\ ~early =>
          \A i \in 1 .. InCount : Holder(<<"in", i>>) \in cancelled
    /\ mainPc = "stopout" /\ ~early =>
          \A j \in 1 .. nthPlugin - 1 : Holder(<<"out", j>>) \in cancelled
    /\ mainPc \in {"closein", "closeout"} /\ ~early =>
          \A j \in 1 .. OutCount : Holder(<<"out", j>>) \in cancelled

(* A library is open once for each plugin that was loaded from it and not  *)
(* closed; the outputs whose handle a later one shares are not closed.     *)
From(c, s, l) == {p \in s : LibOf(c, p) = l}
Counts(c, m, s) == \A l \in DOMAIN m : m[l] = Cardinality(From(c, s, l))
ClosedOuts(n) == {<<"out", j>> : j \in {k \in 1 .. n : ~Shared(k)}}
Closed == IF mainPc = "closein" THEN Ins(nthPlugin - 1)
          ELSE IF mainPc = "closeout" THEN Ins(InCount) \cup ClosedOuts(nthPlugin - 1)
          ELSE {}

MapsBounded == \A l \in DOMAIN maps : maps[l] \in 0 .. InCount + OutCount

PInv ==
    /\ PluginTypes /\ Position /\ Loading /\ MutexStates /\ ThreadIds /\ Stops
    /\ mainPc # "exited" => Counts(cmdline, maps, stopFn \ Closed)
    /\ MapsBounded /\ WildOnlyEarly /\ UncancelledOutputMapped

(* The plugins of a command line, and how many they are.                   *)
LEMMA PluginSets ==
    ASSUME NEW c \in CommandLines
    PROVE  /\ Len(c.ins) \in Nat /\ Len(c.ins) >= 1 /\ Len(c.outs) \in Nat /\ Len(c.outs) >= 1
           /\ Plugged(c) = Ins(Len(c.ins)) \cup Outs(Len(c.outs))
           /\ IsFiniteSet(Plugged(c)) /\ Cardinality(Plugged(c)) = Len(c.ins) + Len(c.outs)
<1> DEFINE m == Len(c.ins)
           n == Len(c.outs)
           A == {"in"} \X (1 .. m)
           B == {"out"} \X (1 .. n)
<1>1. /\ m \in Nat /\ m >= 1 /\ DOMAIN c.ins = 1 .. m
      /\ n \in Nat /\ n >= 1 /\ DOMAIN c.outs = 1 .. n
  BY PluginAssumption
<1>2. Plugged(c) = A \cup B  BY <1>1, Zenon DEF Plugged
<1>3. A = Ins(m) /\ B = Outs(n)  BY DEF Ins, Outs
<1>4. IsFiniteSet({"in"}) /\ Cardinality({"in"}) = 1 /\ IsFiniteSet({"out"}) /\ Cardinality({"out"}) = 1
  BY FS_Singleton, Zenon
<1> HIDE DEF m, n
<1>5. /\ IsFiniteSet(1 .. m) /\ Cardinality(1 .. m) = m
      /\ IsFiniteSet(1 .. n) /\ Cardinality(1 .. n) = n
  BY <1>1, FS_Interval
<1>6. IsFiniteSet(A) /\ Cardinality(A) = 1 * m
  <2>1. \A T : IsFiniteSet(T) =>
           IsFiniteSet({"in"} \X T) /\ Cardinality({"in"} \X T) = Cardinality({"in"}) * Cardinality(T)
    BY <1>4, FS_Product, Zenon
  <2>2. IsFiniteSet(A) /\ Cardinality(A) = Cardinality({"in"}) * Cardinality(1 .. m)
    BY <1>5, <2>1, Zenon
  <2> QED  BY <1>4, <1>5, <2>2, Zenon
<1>7. IsFiniteSet(B) /\ Cardinality(B) = 1 * n
  <2>1. \A T : IsFiniteSet(T) =>
           IsFiniteSet({"out"} \X T) /\ Cardinality({"out"} \X T) = Cardinality({"out"}) * Cardinality(T)
    BY <1>4, FS_Product, Zenon
  <2>2. IsFiniteSet(B) /\ Cardinality(B) = Cardinality({"out"}) * Cardinality(1 .. n)
    BY <1>5, <2>1, Zenon
  <2> QED  BY <1>4, <1>5, <2>2, Zenon
<1>8. A \cap B = {}  BY Zenon
<1> HIDE DEF A, B
<1>9. IsFiniteSet(A \cup B) /\ Cardinality(A \cup B) = Cardinality(A) + Cardinality(B) - 0
  BY <1>6, <1>7, <1>8, FS_Union, FS_EmptySet
<1>10. /\ m \in Nat /\ m >= 1 /\ n \in Nat /\ n >= 1
       /\ Plugged(c) = Ins(m) \cup Outs(n)
       /\ IsFiniteSet(Plugged(c)) /\ Cardinality(Plugged(c)) = m + n
  BY <1>1, <1>2, <1>3, <1>6, <1>7, <1>9
<1> QED  BY ONLY <1>10, Zenon DEF m, n

(* What a count says: it is in range, and positive for a plugin counted.   *)
LEMMA CountSays ==
    ASSUME NEW c \in CommandLines, NEW s, s \subseteq Plugged(c), NEW m, Counts(c, m, s)
    PROVE  /\ \A l \in DOMAIN m : m[l] \in 0 .. Len(c.ins) + Len(c.outs)
           /\ \A p \in s : LibOf(c, p) \in DOMAIN m => m[LibOf(c, p)] > 0
<1> DEFINE b == Len(c.ins) + Len(c.outs)
<1>0. IsFiniteSet(Plugged(c)) /\ Cardinality(Plugged(c)) = b  BY PluginSets, Zenon
<1> HIDE DEF b
<1>1. ASSUME NEW l
      PROVE  /\ IsFiniteSet(From(c, s, l)) /\ Cardinality(From(c, s, l)) \in Nat
             /\ b \in Nat /\ Cardinality(From(c, s, l)) <= b
  <2>1. From(c, s, l) \in SUBSET Plugged(c)  BY Zenon DEF From
  <2> QED  BY <1>0, <2>1, FS_Subset, FS_CardinalityType, Zenon
<1>2. \A l \in DOMAIN m : m[l] \in 0 .. b  BY <1>1 DEF Counts
<1>3. ASSUME NEW p \in s, LibOf(c, p) \in DOMAIN m  PROVE m[LibOf(c, p)] > 0
  <2>1. From(c, s, LibOf(c, p)) # {}  BY Zenon DEF From
  <2>2. Cardinality(From(c, s, LibOf(c, p))) # 0  BY <1>1, <2>1, FS_EmptySet, Zenon
  <2>3. m[LibOf(c, p)] = Cardinality(From(c, s, LibOf(c, p)))  BY <1>3, Zenon DEF Counts
  <2> QED  BY <1>1, <2>2, <2>3
<1> QED  BY <1>2, <1>3, Zenon DEF b

(* dlopen counts up.                                                       *)
LEMMA LoadCounts ==
    ASSUME NEW c \in CommandLines, NEW s, s \subseteq Plugged(c), NEW m, Counts(c, m, s),
           NEW p, p \notin s
    PROVE  Counts(c, [m EXCEPT ![LibOf(c, p)] = @ + 1], s \cup {p})
<1> SUFFICES ASSUME NEW l \in DOMAIN m
             PROVE  [m EXCEPT ![LibOf(c, p)] = @ + 1][l] = Cardinality(From(c, s \cup {p}, l))
  BY Zenon DEF Counts
<1>1. From(c, s, l) \in SUBSET Plugged(c)  BY Zenon DEF From
<1>2. IsFiniteSet(From(c, s, l))  BY <1>1, PluginSets, FS_Subset, Zenon
<1>3. CASE l = LibOf(c, p)
  <2>1. From(c, s \cup {p}, l) = From(c, s, l) \cup {p} /\ p \notin From(c, s, l)
    BY <1>3, Zenon DEF From
  <2>2. Cardinality(From(c, s, l) \cup {p}) = Cardinality(From(c, s, l)) + 1
    BY <1>2, <2>1, FS_AddElement, Zenon
  <2> QED  BY <1>3, <2>1, <2>2, Zenon DEF Counts
<1>4. CASE l # LibOf(c, p)
  <2>1. From(c, s \cup {p}, l) = From(c, s, l)  BY <1>4, Zenon DEF From
  <2> QED  BY <1>4, <2>1, Zenon DEF Counts
<1> QED  BY <1>3, <1>4, Zenon

(* dlclose counts down.                                                    *)
LEMMA CloseCounts ==
    ASSUME NEW c \in CommandLines, NEW s, s \subseteq Plugged(c), NEW m, Counts(c, m, s),
           NEW p \in s
    PROVE  Counts(c, [m EXCEPT ![LibOf(c, p)] = @ - 1], s \ {p})
<1> SUFFICES ASSUME NEW l \in DOMAIN m
             PROVE  [m EXCEPT ![LibOf(c, p)] = @ - 1][l] = Cardinality(From(c, s \ {p}, l))
  BY Zenon DEF Counts
<1>1. From(c, s, l) \in SUBSET Plugged(c)  BY Zenon DEF From
<1>2. IsFiniteSet(From(c, s, l))  BY <1>1, PluginSets, FS_Subset, Zenon
<1>3. CASE l = LibOf(c, p)
  <2>1. From(c, s \ {p}, l) = From(c, s, l) \ {p} /\ p \in From(c, s, l)
    BY <1>3, Zenon DEF From
  <2>2. Cardinality(From(c, s, l) \ {p}) = Cardinality(From(c, s, l)) - 1
    BY <1>2, <2>1, FS_RemoveElement, Zenon
  <2> QED  BY <1>3, <2>1, <2>2, Zenon DEF Counts
<1>4. CASE l # LibOf(c, p)
  <2>1. From(c, s \ {p}, l) = From(c, s, l)  BY <1>4, Zenon DEF From
  <2> QED  BY <1>4, <2>1, Zenon DEF Counts
<1> QED  BY <1>3, <1>4, Zenon

(* The plugins of the program's command line.                              *)
LEMMA Plugs ==
    ASSUME PluginTypes
    PROVE  /\ InCount \in Nat /\ InCount >= 1 /\ OutCount \in Nat /\ OutCount >= 1
           /\ All = Ins(InCount) \cup Outs(OutCount)
           /\ \A p \in All : /\ Lib(p) \in DOMAIN maps /\ IdOf(cmdline, p) \in DOMAIN worker
                             /\ p # NoThread
           /\ \A i \in 1 .. InCount : <<"in", i>> \in All /\ Lib(<<"in", i>>) = cmdline.ins[i]
           /\ \A j \in 1 .. OutCount : <<"out", j>> \in All /\ Lib(<<"out", j>>) = cmdline.outs[j]
<1>1. cmdline \in CommandLines  BY Zenon DEF PluginTypes
<1>2. /\ InCount \in Nat /\ InCount >= 1 /\ OutCount \in Nat /\ OutCount >= 1
      /\ All = Ins(InCount) \cup Outs(OutCount)
  BY <1>1, PluginSets, Zenon DEF InCount, OutCount, All
<1>3. \A p \in All : Lib(p) \in DOMAIN maps /\ IdOf(cmdline, p) \in DOMAIN worker
  BY Zenon DEF PluginTypes
<1>4. \A p \in All : p # NoThread  BY <1>2 DEF Ins, Outs, NoThread
<1>5. \A i \in 1 .. InCount : <<"in", i>> \in All /\ Lib(<<"in", i>>) = cmdline.ins[i]
  BY <1>2, Zenon DEF Ins, Lib, LibOf
<1>6. \A j \in 1 .. OutCount : <<"out", j>> \in All /\ Lib(<<"out", j>>) = cmdline.outs[j]
  BY <1>2, Zenon DEF Outs, Lib, LibOf
<1> QED  BY <1>2, <1>3, <1>4, <1>5, <1>6, Zenon

(* The command line never changes, nor does what is read off it.           *)
LEMMA Frame ==
    ASSUME cmdline' = cmdline
    PROVE  /\ InCount' = InCount /\ OutCount' = OutCount /\ All' = All
           /\ \A p : Lib(p)' = Lib(p)
           /\ \A n : ClosedOuts(n)' = ClosedOuts(n)
BY Zenon DEF InCount, OutCount, All, Lib, ClosedOuts, Shared

(* The process ends.                                                       *)
LEMMA QuitKeeps ==
    ASSUME PInv, mainPc' = "exited", UNCHANGED <<cmdline, early, worker, living, maps, stopFn>>,
           cancelled' \subseteq All, cancelled \subseteq cancelled',
           stopCalls' \in [All -> 0 .. 1], wild' \subseteq {"stop", "cancel"},
           wild' # {} => early
    PROVE  PInv'
<1> USE Frame
<1>1. PluginTypes'  BY Zenon DEF PInv, PluginTypes
<1>2. Position' /\ Loading' /\ MutexStates'
  BY Zenon DEF Position, Loading, MutexStates, Starting, Ending
<1>3. ThreadIds' /\ Stops'  BY Zenon DEF ThreadIds, Stops, Starting, Ending
<1>4. MapsBounded' /\ WildOnlyEarly'  BY Zenon DEF PInv, MapsBounded, WildOnlyEarly
<1>5. UncancelledOutputMapped'  BY Zenon DEF PInv, UncancelledOutputMapped
<1> QED  BY <1>1, <1>2, <1>3, <1>4, <1>5, Zenon DEF PInv

(* main initialises the mutex of an input, or gives up.                    *)
LEMMA InitMutexesKeeps == ASSUME PInv, InitMutexes PROVE PInv'
<1> USE Frame, Plugs DEF PInv, InitMutexes
<1>1. PluginTypes'  BY DEF PluginTypes, Starting
<1>2. Position' /\ Loading'  BY Zenon DEF Position, Loading
<1>3. MutexStates'  BY DEF MutexStates, Position, Starting, Ending
<1>4. ThreadIds' /\ Stops'  BY Zenon DEF ThreadIds, Stops, Starting, Ending
<1>5. MapsBounded' /\ WildOnlyEarly' /\ UncancelledOutputMapped'
  BY Zenon DEF MapsBounded, WildOnlyEarly, UncancelledOutputMapped
<1>6. Closed = {} /\ Closed' = {}  BY Zenon DEF Closed
<1> QED  BY <1>1, <1>2, <1>3, <1>4, <1>5, <1>6, Zenon

(* A library is opened.                                                    *)
LEMMA LoadKeeps ==
    ASSUME PInv, NEW p \in All, p \notin stopFn, mainPc \in {"inopen", "outopen"},
           maps' = [maps EXCEPT ![Lib(p)] = @ + 1], stopFn' = stopFn \cup {p},
           mainPc' \in {"ininit", "outinit"},
           UNCHANGED <<cmdline, early, living, cancelled, wild>>
    PROVE  /\ mainPc' # "exited" => Counts(cmdline', maps', stopFn' \ Closed')
           /\ MapsBounded' /\ WildOnlyEarly' /\ UncancelledOutputMapped'
<1> USE Frame
<1>1. Closed = {} /\ Closed' = {}  BY Zenon DEF Closed
<1>2. Counts(cmdline, maps, stopFn)  BY <1>1, Zenon DEF PInv
<1>3. cmdline \in CommandLines /\ stopFn \subseteq Plugged(cmdline) /\ p \in Plugged(cmdline)
  BY Zenon DEF PInv, PluginTypes, All
<1>4. Counts(cmdline, maps', stopFn')  BY <1>2, <1>3, LoadCounts, Zenon DEF Lib
<1>5. stopFn' \subseteq Plugged(cmdline)  BY <1>3, Zenon
<1>6. MapsBounded'
  <2>1. \A l \in DOMAIN maps' : maps'[l] \in 0 .. Len(cmdline.ins) + Len(cmdline.outs)
    BY <1>3, <1>4, <1>5, CountSays, Zenon
  <2> QED  BY <2>1, Zenon DEF MapsBounded, InCount, OutCount
<1>7. WildOnlyEarly'  BY Zenon DEF PInv, WildOnlyEarly
<1>8. UncancelledOutputMapped'
  <2>1. \A l \in DOMAIN maps : maps[l] \in Nat /\ maps'[l] >= maps[l]
    <3> USE Plugs DEF PInv
    <3>1. InCount + OutCount \in Nat  OBVIOUS
    <3> QED  BY <3>1 DEF MapsBounded
  <2>2. \A q \in living : Lib(q) \in DOMAIN maps  BY Plugs, Zenon DEF PInv, PluginTypes
  <2>3. \A q \in living : maps'[Lib(q)] \in Nat  BY <2>1, <2>2, <1>6, Plugs DEF MapsBounded, PInv
  <2> QED  BY <2>1, <2>2, <2>3 DEF PInv, UncancelledOutputMapped
<1> QED  BY <1>1, <1>4, <1>6, <1>7, <1>8, Zenon

(* main opens the library of an input and finds its functions.             *)
LEMMA LoadInputKeeps == ASSUME PInv, LoadInput PROVE PInv'
<1> DEFINE p == <<"in", nthPlugin>>
<1> USE Frame, Plugs DEF PInv
<1>1. CASE Quit /\ UNCHANGED <<maps, stopFn>>
  BY <1>1, QuitKeeps, Zenon DEF LoadInput, Load, Quit, PluginTypes, WildOnlyEarly
<1>2. CASE /\ maps' = [maps EXCEPT ![Lib(p)] = @ + 1] /\ stopFn' = stopFn \cup {p}
           /\ mainPc' = "ininit" /\ UNCHANGED nthPlugin
  <2>1. p \in All /\ p \notin stopFn /\ mainPc = "inopen" /\ nthPlugin \in 1 .. InCount
    BY DEF LoadInput, Position, Loading, Ins
  <2>2. stopFn' = Ins(nthPlugin)  BY <1>2, <2>1 DEF Loading, Ins
  <2> HIDE DEF p
  <2>0. /\ UNCHANGED <<cmdline, early, worker, living, cancelled, stopCalls, wild>>
        /\ All' = All /\ InCount' = InCount /\ OutCount' = OutCount /\ \A q : Lib(q)' = Lib(q)
    BY Zenon DEF LoadInput, Load
  <2>3. PluginTypes'
    <3>1. (DOMAIN maps = {Lib(q) : q \in All})'  BY <1>2, <2>0 DEF PluginTypes
    <3>2. (/\ cmdline \in CommandLines /\ early \in BOOLEAN
           /\ mainPc \in Starting \cup Ending \cup {"pause", "exited"}
           /\ stopFn \subseteq All /\ living \subseteq All /\ cancelled \subseteq All)'
      BY <1>2, <2>0, <2>1, Zenon DEF PluginTypes, Starting
    <3>3. (stopCalls \in [All -> 0 .. 1] /\ wild \subseteq {"stop", "cancel"})'
      BY <2>0, Zenon DEF PluginTypes
    <3>4. (/\ DOMAIN worker = {IdOf(cmdline, q) : q \in All}
           /\ \A v \in DOMAIN worker :
                worker[v] # NoThread => worker[v] \in All /\ IdOf(cmdline, worker[v]) = v)'
      BY <2>0 DEF PluginTypes
    <3> QED  BY <3>1, <3>2, <3>3, <3>4, Zenon DEF PluginTypes
  <2>4. Position' /\ Loading'  BY <1>2, <2>0, <2>1, <2>2, Zenon DEF Position, Loading
  <2>5. MutexStates'  BY <1>2, <2>1, Zenon DEF MutexStates, LoadInput, Load, Starting, Ending
  <2>6. ThreadIds' /\ Stops'
    BY <1>2, <2>1, Zenon DEF ThreadIds, Stops, LoadInput, Load, Starting, Ending
  <2>7. UNCHANGED <<cmdline, early, living, cancelled, wild>>  BY Zenon DEF LoadInput, Load
  <2>8. /\ mainPc' # "exited" => Counts(cmdline', maps', stopFn' \ Closed')
        /\ MapsBounded' /\ WildOnlyEarly' /\ UncancelledOutputMapped'
    BY <1>2, <2>1, <2>7, LoadKeeps, Zenon
  <2> QED  BY <2>3, <2>4, <2>5, <2>6, <2>8, Zenon
<1> QED  BY <1>1, <1>2, Zenon DEF LoadInput, Load

(* main opens the library of an output and finds its functions.            *)
LEMMA LoadOutputKeeps == ASSUME PInv, LoadOutput PROVE PInv'
<1> DEFINE p == <<"out", nthPlugin>>
<1> USE Frame, Plugs DEF PInv
<1>1. CASE Quit /\ UNCHANGED <<maps, stopFn>>
  BY <1>1, QuitKeeps, Zenon DEF LoadOutput, Load, Quit, PluginTypes, WildOnlyEarly
<1>2. CASE /\ maps' = [maps EXCEPT ![Lib(p)] = @ + 1] /\ stopFn' = stopFn \cup {p}
           /\ mainPc' = "outinit" /\ UNCHANGED nthPlugin
  <2>1. p \in All /\ p \notin stopFn /\ mainPc = "outopen" /\ nthPlugin \in 1 .. OutCount
    BY DEF LoadOutput, Position, Loading, Ins, Outs
  <2>2. stopFn' = Ins(InCount) \cup Outs(nthPlugin)  BY <1>2, <2>1 DEF Loading, Ins, Outs
  <2> HIDE DEF p
  <2>0. /\ UNCHANGED <<cmdline, early, worker, living, cancelled, stopCalls, wild>>
        /\ All' = All /\ InCount' = InCount /\ OutCount' = OutCount /\ \A q : Lib(q)' = Lib(q)
    BY Zenon DEF LoadOutput, Load
  <2>3. PluginTypes'
    <3>1. (DOMAIN maps = {Lib(q) : q \in All})'  BY <1>2, <2>0 DEF PluginTypes
    <3>2. (/\ cmdline \in CommandLines /\ early \in BOOLEAN
           /\ mainPc \in Starting \cup Ending \cup {"pause", "exited"}
           /\ stopFn \subseteq All /\ living \subseteq All /\ cancelled \subseteq All)'
      BY <1>2, <2>0, <2>1, Zenon DEF PluginTypes, Starting
    <3>3. (stopCalls \in [All -> 0 .. 1] /\ wild \subseteq {"stop", "cancel"})'
      BY <2>0, Zenon DEF PluginTypes
    <3>4. (/\ DOMAIN worker = {IdOf(cmdline, q) : q \in All}
           /\ \A v \in DOMAIN worker :
                worker[v] # NoThread => worker[v] \in All /\ IdOf(cmdline, worker[v]) = v)'
      BY <2>0 DEF PluginTypes
    <3> QED  BY <3>1, <3>2, <3>3, <3>4, Zenon DEF PluginTypes
  <2>4. Position' /\ Loading'  BY <1>2, <2>0, <2>1, <2>2, Zenon DEF Position, Loading
  <2>5. MutexStates'  BY <1>2, <2>1, Zenon DEF MutexStates, LoadOutput, Load, Starting, Ending
  <2>6. ThreadIds' /\ Stops'
    BY <1>2, <2>1, Zenon DEF ThreadIds, Stops, LoadOutput, Load, Starting, Ending
  <2>7. UNCHANGED <<cmdline, early, living, cancelled, wild>>  BY Zenon DEF LoadOutput, Load
  <2>8. /\ mainPc' # "exited" => Counts(cmdline', maps', stopFn' \ Closed')
        /\ MapsBounded' /\ WildOnlyEarly' /\ UncancelledOutputMapped'
    BY <1>2, <2>1, <2>7, LoadKeeps, Zenon
  <2> QED  BY <2>3, <2>4, <2>5, <2>6, <2>8, Zenon
<1> QED  BY <1>1, <1>2, Zenon DEF LoadOutput, Load

(* Where the loop over the inputs or the outputs goes on.                  *)
LEMMA Loops ==
    ASSUME PluginTypes, NEW again, NEW then
    PROVE  /\ Loop(cmdline.ins, again, then) =>
                \/ nthPlugin < InCount /\ mainPc' = again /\ nthPlugin' = nthPlugin + 1
                \/ ~(nthPlugin < InCount) /\ mainPc' = then /\ nthPlugin' = 1
           /\ Loop(cmdline.outs, again, then) =>
                \/ nthPlugin < OutCount /\ mainPc' = again /\ nthPlugin' = nthPlugin + 1
                \/ ~(nthPlugin < OutCount) /\ mainPc' = then /\ nthPlugin' = 1
BY Zenon DEF Loop, InCount, OutCount

(* The init function of a plugin answers, or the program exits.            *)
LEMMA InitPluginKeeps == ASSUME PInv, InitPlugin PROVE PInv'
<1> USE Frame, Plugs DEF PInv
<1>0. /\ UNCHANGED <<cmdline, early, synced, destroyed, stopFn, maps, worker, living, cancelled,
                     stopCalls, wild>>
      /\ MapsBounded' /\ WildOnlyEarly' /\ UncancelledOutputMapped'
  BY Zenon DEF InitPlugin, MapsBounded, WildOnlyEarly, UncancelledOutputMapped
<1>1. CASE mainPc = "ininit" /\ Loop(cmdline.ins, "mutexes", "outopen")
  <2>1. \/ nthPlugin < InCount /\ mainPc' = "mutexes" /\ nthPlugin' = nthPlugin + 1
        \/ nthPlugin = InCount /\ mainPc' = "outopen" /\ nthPlugin' = 1
    BY <1>1, Loops DEF Position
  <2>2. nthPlugin \in 1 .. InCount  BY <1>1, Zenon DEF Position
  <2>3. PluginTypes'  BY <1>0, <2>1 DEF PluginTypes, Starting
  <2>4. Position'  BY <1>0, <2>1, <2>2 DEF Position
  <2>5. Loading'  BY <1>0, <1>1, <2>1, <2>2 DEF Loading, Outs
  <2>6. MutexStates'  BY <1>0, <1>1, <2>1, <2>2 DEF MutexStates, Starting, Ending
  <2>7. ThreadIds' /\ Stops'  BY <1>0, <1>1, <2>1, Zenon DEF ThreadIds, Stops, Starting, Ending
  <2>8. Closed = {} /\ Closed' = {}  BY <1>1, <2>1, Zenon DEF Closed
  <2> QED  BY <1>0, <1>1, <2>3, <2>4, <2>5, <2>6, <2>7, <2>8, Zenon
<1>2. CASE mainPc = "outinit" /\ Loop(cmdline.outs, "outopen", "runin")
  <2>1. \/ nthPlugin < OutCount /\ mainPc' = "outopen" /\ nthPlugin' = nthPlugin + 1
        \/ nthPlugin = OutCount /\ mainPc' = "runin" /\ nthPlugin' = 1
    BY <1>2, Loops DEF Position
  <2>2. nthPlugin \in 1 .. OutCount  BY <1>2, Zenon DEF Position
  <2>3. PluginTypes'  BY <1>0, <2>1 DEF PluginTypes, Starting
  <2>4. Position'  BY <1>0, <2>1, <2>2 DEF Position
  <2>5. Loading'
    <3>1. stopFn = Ins(InCount) \cup Outs(nthPlugin)  BY <1>2, Zenon DEF Loading
    <3> QED  BY <1>0, <2>1, <2>2, <3>1 DEF Loading
  <2>6. MutexStates'  BY <1>0, <1>2, <2>1, <2>2, Zenon DEF MutexStates, Starting, Ending
  <2>7. ThreadIds' /\ Stops'  BY <1>0, <1>2, <2>1 DEF ThreadIds, Stops, Starting, Ending
  <2>8. Closed = {} /\ Closed' = {}  BY <1>2, <2>1, Zenon DEF Closed
  <2> QED  BY <1>0, <1>2, <2>3, <2>4, <2>5, <2>6, <2>7, <2>8, Zenon
<1>3. CASE Quit  BY <1>0, <1>3, QuitKeeps, Zenon DEF Quit, PluginTypes, WildOnlyEarly
<1> QED  BY <1>1, <1>2, <1>3, Zenon DEF InitPlugin

(* SIGINT arrives: the handler takes over from wherever main was.          *)
LEMMA InterruptKeeps == ASSUME PInv, Interrupt PROVE PInv'
<1> USE Frame, Plugs DEF PInv, Interrupt
<1>1. PluginTypes'  BY DEF PluginTypes, Ending
<1>2. Position'  BY DEF Position
<1>0. ~early' => mainPc = "pause"  BY Zenon
<1>3. Loading'
  <2>1. Ins(nthPlugin' - 1) = {}  BY DEF Ins
  <2>2. ~early' => stopFn = All  BY <1>0, Zenon DEF Loading
  <2> QED  BY <2>1, <2>2, Zenon DEF Loading
<1>4. MutexStates'  BY Zenon DEF MutexStates, Starting, Ending
<1>5. ThreadIds'  BY <1>0, Zenon DEF ThreadIds, Holder, Starting, Ending
<1>6. Stops'  BY DEF Stops, Starting, Ending
<1>7. Closed = {} /\ Closed' = {}  BY Zenon DEF Closed, Starting
<1>8. MapsBounded' /\ WildOnlyEarly'  BY Zenon DEF MapsBounded, WildOnlyEarly, Stops
<1>9. UncancelledOutputMapped'  BY Zenon DEF UncancelledOutputMapped, Stops
<1> QED  BY <1>1, <1>2, <1>3, <1>4, <1>5, <1>6, <1>7, <1>8, <1>9, Zenon DEF Starting

(* A thread that saw pglobal->stop returns.                                *)
LEMMA ThreadEndsKeeps == ASSUME PInv, ThreadEnds PROVE PInv'
<1> USE Frame DEF PInv, ThreadEnds
<1>1. PluginTypes' /\ Position' /\ Loading' /\ MutexStates'
  BY DEF PluginTypes, Position, Loading, MutexStates
<1>2. ThreadIds' /\ Stops'  BY Zenon DEF ThreadIds, Stops, Holder
<1>3. Closed' = Closed  BY Zenon DEF Closed
<1>4. MapsBounded' /\ WildOnlyEarly' /\ UncancelledOutputMapped'
  BY Zenon DEF MapsBounded, WildOnlyEarly, UncancelledOutputMapped
<1> QED  BY <1>1, <1>2, <1>3, <1>4, Zenon

(* A thread is started: every variable that held an id holds one.          *)
LEMMA RunKeeps ==
    ASSUME PInv, NEW p \in All, Run(p), UNCHANGED cmdline,
           mainPc \in {"runin", "runout"}, mainPc' \in {"runin", "runout", "pause"},
           UNCHANGED <<early, stopFn, maps, cancelled, stopCalls, wild>>
    PROVE  /\ PluginTypes'
           /\ \A q \in All : Holder(q)' = IF IdOf(cmdline, q) = IdOf(cmdline, p) THEN p ELSE Holder(q)
           /\ mainPc' # "exited" => Counts(cmdline', maps', stopFn' \ Closed')
           /\ MapsBounded' /\ WildOnlyEarly' /\ UncancelledOutputMapped'
<1> USE Frame DEF PInv
<1>0. /\ All' = All /\ InCount' = InCount /\ OutCount' = OutCount /\ \A q : Lib(q)' = Lib(q)
      /\ living' = living \cup {p} /\ worker' = [worker EXCEPT ![IdOf(cmdline, p)] = p]
  BY Zenon DEF Run
<1>1. \A q \in All : Holder(q)' = IF IdOf(cmdline, q) = IdOf(cmdline, p) THEN p ELSE Holder(q)
  BY <1>0, Plugs, Zenon DEF Holder
<1>2. PluginTypes'
  <2>1. (DOMAIN maps = {Lib(q) : q \in All})'  BY <1>0, Zenon DEF PluginTypes
  <2>2. (/\ cmdline \in CommandLines /\ early \in BOOLEAN
         /\ mainPc \in Starting \cup Ending \cup {"pause", "exited"}
         /\ stopFn \subseteq All /\ living \subseteq All /\ cancelled \subseteq All)'
    BY <1>0, Zenon DEF PluginTypes, Starting
  <2>3. (stopCalls \in [All -> 0 .. 1] /\ wild \subseteq {"stop", "cancel"})'
    BY <1>0, Zenon DEF PluginTypes
  <2>4. (DOMAIN worker = {IdOf(cmdline, q) : q \in All})'  BY <1>0, Zenon DEF PluginTypes
  <2>5. \A v \in DOMAIN worker' :
           worker'[v] # NoThread => worker'[v] \in All /\ IdOf(cmdline, worker'[v]) = v
    BY <1>0, Zenon DEF PluginTypes
  <2> QED  BY <1>0, <2>1, <2>2, <2>3, <2>4, <2>5, Zenon DEF PluginTypes
<1>3. stopFn = All /\ Closed = {} /\ Closed' = {}  BY Zenon DEF Loading, Closed
<1>4. Counts(cmdline, maps, stopFn)  BY <1>3, Zenon
<1>5. MapsBounded' /\ WildOnlyEarly'  BY <1>0, Zenon DEF MapsBounded, WildOnlyEarly
<1>6. UncancelledOutputMapped'
  <2> SUFFICES ASSUME NEW q \in living'  PROVE maps[Lib(q)] > 0
    BY <1>0, Zenon DEF UncancelledOutputMapped
  <2>1. q \in stopFn /\ Lib(q) \in DOMAIN maps /\ stopFn \subseteq Plugged(cmdline)
    BY <1>0, <1>3, Plugs, Zenon DEF PluginTypes, All
  <2> QED  BY <1>4, <2>1, CountSays, Zenon DEF PluginTypes, Lib
<1> QED  BY <1>0, <1>1, <1>2, <1>3, <1>4, <1>5, <1>6, Zenon

(* main calls the run function of the next plugin.                         *)
LEMMA RunPluginKeeps == ASSUME PInv, RunPlugin PROVE PInv'
<1> USE Frame, Plugs DEF PInv
<1>0. /\ UNCHANGED <<cmdline, early, synced, destroyed, stopFn, maps, cancelled, stopCalls, wild>>
      /\ All' = All /\ InCount' = InCount /\ OutCount' = OutCount
  BY Zenon DEF RunPlugin
<1>1. CASE mainPc = "runin" /\ Quit /\ UNCHANGED <<worker, living>>
  BY <1>0, <1>1, QuitKeeps, Zenon DEF Quit, PluginTypes, WildOnlyEarly
<1>2. CASE /\ mainPc = "runin" /\ Run(<<"in", nthPlugin>>)
           /\ Loop(cmdline.ins, "runin", "runout")
  <2> DEFINE p == <<"in", nthPlugin>>
  <2>1. nthPlugin \in 1 .. InCount /\ p \in All  BY <1>2, Zenon DEF Position
  <2>2. \/ nthPlugin < InCount /\ mainPc' = "runin" /\ nthPlugin' = nthPlugin + 1
        \/ nthPlugin = InCount /\ mainPc' = "runout" /\ nthPlugin' = 1
    BY <1>2, <2>1, Loops
  <2>3. mainPc' \in {"runin", "runout", "pause"} /\ p # NoThread  BY <2>1, <2>2, Zenon
  <2>4. /\ PluginTypes'
        /\ \A q \in All : Holder(q)' = IF IdOf(cmdline, q) = IdOf(cmdline, p) THEN p ELSE Holder(q)
        /\ mainPc' # "exited" => Counts(cmdline', maps', stopFn' \ Closed')
        /\ MapsBounded' /\ WildOnlyEarly' /\ UncancelledOutputMapped'
    BY <1>0, <1>2, <2>1, <2>3, RunKeeps, Zenon
  <2>5. Position' /\ Loading'  BY <1>0, <1>2, <2>1, <2>2 DEF Position, Loading
  <2>6. MutexStates' /\ Stops'
    BY <1>0, <1>2, <2>1, <2>2, Zenon DEF MutexStates, Stops, Starting, Ending
  <2>7. ThreadIds'
    <3>1. \A i \in 1 .. nthPlugin : Holder(<<"in", i>>)' # NoThread
      <4> TAKE i \in 1 .. nthPlugin
      <4>1. <<"in", i>> \in All  BY <2>1
      <4>2. CASE i = nthPlugin  BY <2>3, <2>4, <4>1, <4>2, Zenon
      <4>3. CASE i # nthPlugin
        <5>1. i \in 1 .. nthPlugin - 1  BY <2>1, <4>3
        <5>2. Holder(<<"in", i>>) # NoThread  BY <1>2, <5>1, Zenon DEF ThreadIds
        <5> QED  BY <2>3, <2>4, <4>1, <5>2, Zenon
      <4> QED  BY <4>2, <4>3, Zenon
    <3> QED  BY <1>0, <2>1, <2>2, <3>1 DEF ThreadIds, Ending
  <2> QED  BY <2>4, <2>5, <2>6, <2>7, Zenon
<1>3. CASE /\ mainPc = "runout" /\ Run(<<"out", nthPlugin>>)
           /\ Loop(cmdline.outs, "runout", "pause")
  <2> DEFINE p == <<"out", nthPlugin>>
  <2>1. nthPlugin \in 1 .. OutCount /\ p \in All  BY <1>3, Zenon DEF Position
  <2>2. \/ nthPlugin < OutCount /\ mainPc' = "runout" /\ nthPlugin' = nthPlugin + 1
        \/ nthPlugin = OutCount /\ mainPc' = "pause" /\ nthPlugin' = 1
    BY <1>3, <2>1, Loops
  <2>3. mainPc' \in {"runin", "runout", "pause"} /\ p # NoThread  BY <2>1, <2>2, Zenon
  <2>4. /\ PluginTypes'
        /\ \A q \in All : Holder(q)' = IF IdOf(cmdline, q) = IdOf(cmdline, p) THEN p ELSE Holder(q)
        /\ mainPc' # "exited" => Counts(cmdline', maps', stopFn' \ Closed')
        /\ MapsBounded' /\ WildOnlyEarly' /\ UncancelledOutputMapped'
    BY <1>0, <1>3, <2>1, <2>3, RunKeeps, Zenon
  <2>5. Position' /\ Loading'  BY <1>0, <1>3, <2>1, <2>2 DEF Position, Loading
  <2>6. MutexStates' /\ Stops'
    BY <1>0, <1>3, <2>1, <2>2, Zenon DEF MutexStates, Stops, Starting, Ending
  <2>7. ThreadIds'
    <3>1. \A i \in 1 .. InCount : Holder(<<"in", i>>)' # NoThread
      BY <1>3, <2>1, <2>3, <2>4, Zenon DEF ThreadIds
    <3>2. \A j \in 1 .. nthPlugin : Holder(<<"out", j>>)' \in {<<"out", k>> : k \in j .. OutCount}
      <4> TAKE j \in 1 .. nthPlugin
      <4>1. <<"out", j>> \in All  BY <2>1
      <4>2. p \in {<<"out", k>> : k \in j .. OutCount}  BY <2>1
      <4>3. CASE j = nthPlugin  BY <2>4, <4>1, <4>2, <4>3, Zenon
      <4>4. CASE j # nthPlugin
        <5>1. j \in 1 .. nthPlugin - 1  BY <2>1, <4>4
        <5>2. Holder(<<"out", j>>) \in {<<"out", k>> : k \in j .. OutCount}
          BY <1>3, <5>1, Zenon DEF ThreadIds
        <5> QED  BY <2>4, <4>1, <4>2, <5>2, Zenon
      <4> QED  BY <4>3, <4>4, Zenon
    <3> QED  BY <1>0, <2>1, <2>2, <3>1, <3>2 DEF ThreadIds, Ending
  <2> QED  BY <2>4, <2>5, <2>6, <2>7, Zenon
<1> QED  BY <1>1, <1>2, <1>3, Zenon DEF RunPlugin

(* The call of a plugin's stop function; when the handler goes on, the     *)
(* thread the variable named is cancelled, if main had finished starting.  *)
LEMMA StopKeeps ==
    ASSUME PInv, NEW p \in All, mainPc \in {"stopin", "stopout"}, stopCalls[p] = 0,
           ~early => Holder(p) # NoThread,
           UNCHANGED <<cmdline, early, synced, stopFn, maps, worker, living>>,
           p \in stopFn, mainPc' \in {"stopin", "stopout", "closein"},
           mainPc' = "closein" => nthPlugin' = 1,
           stopCalls' = [stopCalls EXCEPT ![p] = @ + 1],
           cancelled' = IF Holder(p) = NoThread THEN cancelled ELSE cancelled \cup {Holder(p)},
           wild' = IF Holder(p) = NoThread THEN wild \cup {"cancel"} ELSE wild
    PROVE  /\ PluginTypes'
           /\ cancelled \subseteq cancelled' /\ (~early => Holder(p) \in cancelled')
           /\ mainPc' # "exited" => Counts(cmdline', maps', stopFn' \ Closed')
           /\ MapsBounded' /\ WildOnlyEarly' /\ UncancelledOutputMapped'
<1> USE Frame DEF PInv
<1>0. /\ All' = All /\ InCount' = InCount /\ OutCount' = OutCount /\ \A q : Lib(q)' = Lib(q)
  BY Zenon
<1>1. Holder(p) # NoThread => Holder(p) \in All  BY Plugs, Zenon DEF Holder, PluginTypes
<1>2. cancelled \subseteq cancelled' /\ cancelled' \subseteq All /\ (~early => Holder(p) \in cancelled')
  BY <1>1, Zenon DEF PluginTypes
<1>3. WildOnlyEarly' /\ wild' \subseteq {"stop", "cancel"}  BY Zenon DEF WildOnlyEarly, PluginTypes
<1>4. PluginTypes'
  <2>1. (DOMAIN maps = {Lib(q) : q \in All})'  BY <1>0, Zenon DEF PluginTypes
  <2>2. (/\ cmdline \in CommandLines /\ early \in BOOLEAN
         /\ mainPc \in Starting \cup Ending \cup {"pause", "exited"}
         /\ stopFn \subseteq All /\ living \subseteq All /\ cancelled \subseteq All)'
    BY <1>0, <1>2, Zenon DEF PluginTypes, Ending
  <2>3. (stopCalls \in [All -> 0 .. 1])'
    <3>1. stopCalls[p] + 1 \in 0 .. 1  OBVIOUS
    <3> QED  BY <1>0, <3>1, Zenon DEF PluginTypes
  <2>4. (/\ DOMAIN worker = {IdOf(cmdline, q) : q \in All}
         /\ \A v \in DOMAIN worker :
              worker[v] # NoThread => worker[v] \in All /\ IdOf(cmdline, worker[v]) = v)'
    BY <1>0, Zenon DEF PluginTypes
  <2> QED  BY <1>3, <2>1, <2>2, <2>3, <2>4, Zenon DEF PluginTypes
<1>5. Closed = {} /\ Closed' = {}  BY DEF Closed, Ins
<1>6. MapsBounded' /\ UncancelledOutputMapped'
  BY <1>0, <1>2, Zenon DEF MapsBounded, UncancelledOutputMapped
<1> QED  BY <1>2, <1>3, <1>4, <1>5, <1>6, Zenon

(* The call ends the process.                                              *)
Ends(p) ==
    \/ p \notin stopFn /\ wild' = wild \cup {"stop"} /\ UNCHANGED <<cancelled, stopCalls>>
    \/ /\ Holder(p) = NoThread /\ wild' = wild \cup {"cancel"} /\ UNCHANGED cancelled
       /\ stopCalls' = [stopCalls EXCEPT ![p] = @ + 1]
GoesOn(p) ==
    /\ p \in stopFn /\ stopCalls' = [stopCalls EXCEPT ![p] = @ + 1]
    /\ cancelled' = IF Holder(p) = NoThread THEN cancelled ELSE cancelled \cup {Holder(p)}
    /\ wild' = IF Holder(p) = NoThread THEN wild \cup {"cancel"} ELSE wild
LEMMA StopEnds ==
    ASSUME PInv, NEW p \in All, Quit, Ends(p), stopCalls[p] = 0,
           ~early => p \in stopFn /\ Holder(p) # NoThread,
           UNCHANGED <<cmdline, early, synced, stopFn, maps, worker, living>>
    PROVE  PInv'
<1> USE DEF PInv
<1>0. cancelled \subseteq All /\ stopCalls \in [All -> 0 .. 1] /\ wild \subseteq {"stop", "cancel"}
  BY Zenon DEF PluginTypes
<1>1. early /\ cancelled' = cancelled /\ wild' \subseteq {"stop", "cancel"}  BY <1>0, Zenon DEF Ends
<1>2. stopCalls' \in [All -> 0 .. 1]
  <2>1. stopCalls[p] + 1 \in 0 .. 1  OBVIOUS
  <2> QED  BY <1>0, <2>1, Zenon DEF Ends
<1> QED  BY <1>0, <1>1, <1>2, QuitKeeps, Zenon DEF Quit

(* The handler calls the stop function of the next input.                  *)
LEMMA StopInputKeeps == ASSUME PInv, StopInput PROVE PInv'
<1> DEFINE p == <<"in", nthPlugin>>
<1> USE Frame, Plugs DEF PInv
<1>0. /\ UNCHANGED <<cmdline, early, synced, stopFn, maps, worker, living>> /\ mainPc = "stopin"
      /\ All' = All /\ InCount' = InCount /\ OutCount' = OutCount
  BY Zenon DEF StopInput
<1>1. nthPlugin \in 1 .. InCount /\ p \in All  BY <1>0, Zenon DEF Position
<1>2. stopCalls[p] = 0  BY <1>0, <1>1 DEF Stops
<1>3. ~early => p \in stopFn /\ Holder(p) # NoThread
  BY <1>0, <1>1, Zenon DEF Loading, ThreadIds, Ending
<1>4. \/ Quit /\ Ends(p)
      \/ Loop(cmdline.ins, "stopin", "stopout") /\ destroyed' = destroyed /\ GoesOn(p)
  BY Zenon DEF StopInput, Stop, Ends, GoesOn, Holder
<1>5. CASE Quit /\ Ends(p)  BY <1>0, <1>1, <1>2, <1>3, <1>5, StopEnds, Zenon
<1>6. CASE Loop(cmdline.ins, "stopin", "stopout") /\ destroyed' = destroyed /\ GoesOn(p)
  <2>1. \/ nthPlugin < InCount /\ mainPc' = "stopin" /\ nthPlugin' = nthPlugin + 1
        \/ nthPlugin = InCount /\ mainPc' = "stopout" /\ nthPlugin' = 1
    BY <1>1, <1>6, Loops
  <2>2. /\ PluginTypes'
        /\ cancelled \subseteq cancelled' /\ (~early => Holder(p) \in cancelled')
        /\ mainPc' # "exited" => Counts(cmdline', maps', stopFn' \ Closed')
        /\ MapsBounded' /\ WildOnlyEarly' /\ UncancelledOutputMapped'
    BY <1>0, <1>1, <1>2, <1>3, <1>6, <2>1, StopKeeps, Zenon DEF GoesOn
  <2>3. Position'  BY <1>0, <1>1, <2>1 DEF Position
  <2>4. Loading'
    <3>1. p \in stopFn /\ Ins(nthPlugin - 1) \subseteq stopFn
      BY <1>0, <1>6, Zenon DEF Loading, GoesOn
    <3>2. Ins(nthPlugin) \subseteq stopFn  BY <1>1, <3>1 DEF Ins
    <3>3. Outs(0) = {}  BY DEF Outs
    <3> QED  BY <1>0, <1>1, <2>1, <3>2, <3>3 DEF Loading
  <2>5. MutexStates'
    <3>1. destroyed' = {} /\ (~early => synced' = 1 .. InCount)
      BY <1>0, <1>6, Zenon DEF MutexStates, Starting, Ending
    <3>2. 1 .. 0 = {} /\ (nthPlugin' = 1 => nthPlugin' - 1 = 0)  OBVIOUS
    <3> QED  BY <1>0, <2>1, <3>1, <3>2, Zenon DEF MutexStates, Starting, Ending
  <2>6. \A q : Holder(q)' = Holder(q)  BY <1>0, Zenon DEF Holder
  <2>7. ThreadIds'  BY <1>0, <2>1, <2>6, Zenon DEF ThreadIds, Ending
  <2>8. Stops'
    <3>1. \A q \in All : q # p => stopCalls'[q] = stopCalls[q]
      BY <1>6, Zenon DEF GoesOn, PluginTypes
    <3>2. \A i \in nthPlugin + 1 .. InCount : stopCalls'[<<"in", i>>] = 0
      <4> TAKE i \in nthPlugin + 1 .. InCount
      <4>1. i \in nthPlugin .. InCount /\ i \in 1 .. InCount /\ i # nthPlugin  BY <1>1
      <4>2. <<"in", i>> \in All /\ <<"in", i>> # p  BY <4>1, Zenon
      <4>3. stopCalls[<<"in", i>>] = 0  BY <1>0, <4>1, Zenon DEF Stops
      <4> QED  BY <3>1, <4>2, <4>3, Zenon
    <3>3. \A j \in 1 .. OutCount : stopCalls'[<<"out", j>>] = 0
      BY <1>0, <1>1, <3>1, Zenon DEF Stops
    <3>4. ~early => \A i \in 1 .. nthPlugin : Holder(<<"in", i>>) \in cancelled'
      <4> SUFFICES ASSUME ~early, NEW i \in 1 .. nthPlugin  PROVE Holder(<<"in", i>>) \in cancelled'
        BY Zenon
      <4>1. CASE i = nthPlugin  BY <2>2, <4>1, Zenon
      <4>2. CASE i # nthPlugin
        <5>1. i \in 1 .. nthPlugin - 1  BY <1>1, <4>2
        <5> QED  BY <1>0, <2>2, <5>1, Zenon DEF Stops
      <4> QED  BY <4>1, <4>2, Zenon
    <3> QED  BY <1>0, <1>1, <2>1, <2>6, <3>2, <3>3, <3>4 DEF Stops, Starting
  <2> QED  BY <2>2, <2>3, <2>4, <2>5, <2>7, <2>8, Zenon
<1> QED  BY <1>4, <1>5, <1>6, Zenon

(* The handler calls the stop function of the next output.                 *)
LEMMA StopOutputKeeps == ASSUME PInv, StopOutput PROVE PInv'
<1> DEFINE p == <<"out", nthPlugin>>
<1> USE Frame, Plugs DEF PInv
<1>0. /\ UNCHANGED <<cmdline, early, synced, stopFn, maps, worker, living>> /\ mainPc = "stopout"
      /\ All' = All /\ InCount' = InCount /\ OutCount' = OutCount
  BY Zenon DEF StopOutput
<1>1. nthPlugin \in 1 .. OutCount /\ p \in All  BY <1>0, Zenon DEF Position
<1>2. stopCalls[p] = 0  BY <1>0, <1>1 DEF Stops
<1>3. ~early => p \in stopFn /\ Holder(p) # NoThread
  <2>1. ~early => Holder(p) \in {<<"out", k>> : k \in nthPlugin .. OutCount}
    BY <1>0, <1>1, Zenon DEF ThreadIds, Ending
  <2> QED  BY <1>0, <1>1, <2>1 DEF Loading, NoThread
<1>4. \/ Quit /\ Ends(p)
      \/ /\ Loop(cmdline.outs, "stopout", "closein") /\ destroyed' = destroyed \cup {nthPlugin}
         /\ GoesOn(p)
  BY Zenon DEF StopOutput, Stop, Ends, GoesOn, Holder
<1>5. CASE Quit /\ Ends(p)  BY <1>0, <1>1, <1>2, <1>3, <1>5, StopEnds, Zenon
<1>6. CASE /\ Loop(cmdline.outs, "stopout", "closein") /\ destroyed' = destroyed \cup {nthPlugin}
           /\ GoesOn(p)
  <2>1. \/ nthPlugin < OutCount /\ mainPc' = "stopout" /\ nthPlugin' = nthPlugin + 1
        \/ nthPlugin = OutCount /\ mainPc' = "closein" /\ nthPlugin' = 1
    BY <1>1, <1>6, Loops
  <2>2. /\ PluginTypes'
        /\ cancelled \subseteq cancelled' /\ (~early => Holder(p) \in cancelled')
        /\ mainPc' # "exited" => Counts(cmdline', maps', stopFn' \ Closed')
        /\ MapsBounded' /\ WildOnlyEarly' /\ UncancelledOutputMapped'
    BY <1>0, <1>1, <1>2, <1>3, <1>6, <2>1, StopKeeps, Zenon DEF GoesOn
  <2>3. Position'  BY <1>0, <1>1, <2>1 DEF Position
  <2>4. Loading'
    <3>1. p \in stopFn /\ Ins(InCount) \cup Outs(nthPlugin - 1) \subseteq stopFn
      BY <1>0, <1>6, Zenon DEF Loading, GoesOn
    <3>2. Ins(InCount) \cup Outs(nthPlugin) \subseteq stopFn  BY <1>1, <3>1 DEF Outs
    <3>3. stopFn \subseteq All  BY Zenon DEF PluginTypes
    <3> QED  BY <1>0, <1>1, <2>1, <3>2, <3>3 DEF Loading
  <2>5. MutexStates'  BY <1>0, <1>1, <1>6, <2>1 DEF MutexStates, Starting, Ending
  <2>6. \A q : Holder(q)' = Holder(q)  BY <1>0, Zenon DEF Holder
  <2>7. ThreadIds'  BY <1>0, <2>1, <2>6, Zenon DEF ThreadIds, Ending
  <2>8. Stops'
    <3>1. \A q \in All : q # p => stopCalls'[q] = stopCalls[q]
      BY <1>6, Zenon DEF GoesOn, PluginTypes
    <3>2. \A j \in nthPlugin + 1 .. OutCount : stopCalls'[<<"out", j>>] = 0
      <4> TAKE j \in nthPlugin + 1 .. OutCount
      <4>1. j \in nthPlugin .. OutCount /\ j \in 1 .. OutCount /\ j # nthPlugin  BY <1>1
      <4>2. <<"out", j>> \in All /\ <<"out", j>> # p  BY <4>1, Zenon
      <4>3. stopCalls[<<"out", j>>] = 0  BY <1>0, <4>1, Zenon DEF Stops
      <4> QED  BY <3>1, <4>2, <4>3, Zenon
    <3>3. ~early => \A i \in 1 .. InCount : Holder(<<"in", i>>) \in cancelled'
      BY <1>0, <2>2, Zenon DEF Stops
    <3>4. ~early => \A j \in 1 .. nthPlugin : Holder(<<"out", j>>) \in cancelled'
      <4> SUFFICES ASSUME ~early, NEW j \in 1 .. nthPlugin  PROVE Holder(<<"out", j>>) \in cancelled'
        BY Zenon
      <4>1. CASE j = nthPlugin  BY <2>2, <4>1, Zenon
      <4>2. CASE j # nthPlugin
        <5>1. j \in 1 .. nthPlugin - 1  BY <1>1, <4>2
        <5> QED  BY <1>0, <2>2, <5>1, Zenon DEF Stops
      <4> QED  BY <4>1, <4>2, Zenon
    <3> QED  BY <1>0, <1>1, <2>1, <2>6, <3>2, <3>3, <3>4 DEF Stops, Starting
  <2> QED  BY <2>2, <2>3, <2>4, <2>5, <2>7, <2>8, Zenon
<1> QED  BY <1>4, <1>5, <1>6, Zenon

(* The handler does not close the library of an output's thread that nobody *)
(* cancelled: the id it looked for was overwritten by a later instance,     *)
(* which therefore shares the handle.                                       *)
LEMMA Survivors ==
    ASSUME PInv, mainPc \in {"closein", "closeout"}, ~early,
           NEW p \in living \ cancelled, p[1] = "out"
    PROVE  \A m, n : p \notin Ins(m) /\ p \notin ClosedOuts(n)
<1> USE Plugs DEF PInv
<1>1. PICK j \in 1 .. OutCount : p = <<"out", j>>
  <2>1. p \in Ins(InCount) \cup Outs(OutCount)  BY Zenon DEF PluginTypes
  <2> QED  BY <2>1 DEF Ins, Outs
<1>2. Holder(p) \in cancelled /\ Holder(p) \in {<<"out", k>> : k \in j .. OutCount}
  BY <1>1, Zenon DEF Stops, ThreadIds, Ending
<1>3. PICK k \in j .. OutCount : Holder(p) = <<"out", k>>  BY <1>2, Zenon
<1>4. k # j /\ k \in j + 1 .. OutCount  BY <1>1, <1>2, <1>3
<1>5. IdOf(cmdline, <<"out", k>>) = IdOf(cmdline, p)
  <2>1. p \in All /\ Holder(p) # NoThread  BY <1>1, <1>3 DEF NoThread
  <2> QED  BY <1>3, <2>1, Zenon DEF Holder, PluginTypes
<1>6. LibOf(cmdline, <<"out", k>>) = LibOf(cmdline, p)  BY <1>5, Zenon DEF IdOf
<1>7. cmdline.outs[k] = cmdline.outs[j]  BY <1>1, <1>6, Zenon DEF LibOf
<1>8. Shared(j)  BY <1>4, <1>7, Zenon DEF Shared, OutCount
<1> QED  BY <1>1, <1>8, Zenon DEF Ins, ClosedOuts

(* What follows from the count when a library was closed.                  *)
LEMMA ClosingKeeps ==
    ASSUME PInv, mainPc \in {"closein", "closeout"}, NEW m, NEW n,
           UNCHANGED <<cmdline, early, living, cancelled, wild>>,
           DOMAIN maps' = DOMAIN maps, Counts(cmdline, maps', All \ (Ins(m) \cup ClosedOuts(n)))
    PROVE  MapsBounded' /\ WildOnlyEarly' /\ UncancelledOutputMapped'
<1> USE Frame DEF PInv
<1> DEFINE s == All \ (Ins(m) \cup ClosedOuts(n))
<1>1. cmdline \in CommandLines /\ s \subseteq Plugged(cmdline)  BY Zenon DEF PluginTypes, All
<1>2. \A l \in DOMAIN maps' : maps'[l] \in 0 .. Len(cmdline.ins) + Len(cmdline.outs)
  BY <1>1, CountSays, Zenon
<1>3. \A q \in s : LibOf(cmdline, q) \in DOMAIN maps' => maps'[LibOf(cmdline, q)] > 0
  BY <1>1, CountSays, Zenon
<1>4. MapsBounded'  BY <1>2, Zenon DEF MapsBounded, InCount, OutCount
<1>5. WildOnlyEarly'  BY Zenon DEF WildOnlyEarly
<1>6. UncancelledOutputMapped'
  <2> SUFFICES ASSUME NEW p \in living \ cancelled, p[1] = "out", ~early  PROVE maps'[Lib(p)] > 0
    BY Zenon DEF UncancelledOutputMapped
  <2>1. p \in s  BY Survivors, Zenon DEF PluginTypes
  <2>2. Lib(p) \in DOMAIN maps  BY Plugs, Zenon DEF PluginTypes
  <2> QED  BY <1>3, <2>1, <2>2, Zenon DEF Lib
<1> QED  BY <1>4, <1>5, <1>6, Zenon

(* The handler closes the library of the next input.                       *)
LEMMA CloseInputKeeps == ASSUME PInv, CloseInput PROVE PInv'
<1> DEFINE p == <<"in", nthPlugin>>
<1> USE Frame, Plugs DEF PInv
<1>0. /\ UNCHANGED <<cmdline, early, synced, destroyed, stopFn, worker, living, cancelled,
                     stopCalls, wild>> /\ mainPc = "closein"
      /\ All' = All /\ InCount' = InCount /\ OutCount' = OutCount /\ \A q : Lib(q)' = Lib(q)
      /\ \A n : ClosedOuts(n)' = ClosedOuts(n)
  BY Zenon DEF CloseInput
<1>1. nthPlugin \in 1 .. InCount /\ p \in All  BY <1>0, Zenon DEF Position
<1>2. \/ nthPlugin < InCount /\ mainPc' = "closein" /\ nthPlugin' = nthPlugin + 1
      \/ nthPlugin = InCount /\ mainPc' = "closeout" /\ nthPlugin' = 1
  BY <1>1, Loops DEF CloseInput
<1>3. stopFn = All /\ stopFn' = All /\ cmdline \in CommandLines /\ All \subseteq Plugged(cmdline)
  BY <1>0, Zenon DEF Loading, PluginTypes, All
<1>4. Counts(cmdline, maps', All \ Ins(nthPlugin))
  <2> DEFINE s == All \ Ins(nthPlugin - 1)
  <2>1. Counts(cmdline, maps, s)  BY <1>0, <1>3, Zenon DEF Closed
  <2>2. p \in s /\ s \ {p} = All \ Ins(nthPlugin)  BY <1>1 DEF Ins
  <2>3. maps' = [maps EXCEPT ![LibOf(cmdline, p)] = @ - 1]  BY Zenon DEF CloseInput, LibOf
  <2>4. s \subseteq Plugged(cmdline)  BY <1>3, Zenon
  <2> HIDE DEF s
  <2> QED  BY <1>3, <2>1, <2>2, <2>3, <2>4, CloseCounts, Zenon
<1>5. ClosedOuts(0) = {}  BY DEF ClosedOuts
<1>6. DOMAIN maps' = DOMAIN maps  BY Zenon DEF CloseInput
<1>7. Counts(cmdline, maps', All \ (Ins(nthPlugin) \cup ClosedOuts(0)))  BY <1>4, <1>5, Zenon
<1>8. MapsBounded' /\ WildOnlyEarly' /\ UncancelledOutputMapped'
  BY <1>0, <1>6, <1>7, ClosingKeeps, Zenon
<1>9. Closed' = Ins(nthPlugin)  BY <1>0, <1>1, <1>2, <1>5, SMTT(30) DEF Closed
<1>10. PluginTypes'
  <2>1. (DOMAIN maps = {Lib(q) : q \in All})'  BY <1>0, <1>6 DEF PluginTypes
  <2>2. (/\ cmdline \in CommandLines /\ early \in BOOLEAN
         /\ mainPc \in Starting \cup Ending \cup {"pause", "exited"}
         /\ stopFn \subseteq All /\ living \subseteq All /\ cancelled \subseteq All)'
    BY <1>0, <1>2, Zenon DEF PluginTypes, Ending
  <2>3. (stopCalls \in [All -> 0 .. 1] /\ wild \subseteq {"stop", "cancel"})'
    BY <1>0, Zenon DEF PluginTypes
  <2>4. (/\ DOMAIN worker = {IdOf(cmdline, q) : q \in All}
         /\ \A v \in DOMAIN worker :
              worker[v] # NoThread => worker[v] \in All /\ IdOf(cmdline, worker[v]) = v)'
    BY <1>0 DEF PluginTypes
  <2> QED  BY <2>1, <2>2, <2>3, <2>4, Zenon DEF PluginTypes
<1>11. Position' /\ Loading'  BY <1>0, <1>1, <1>2, <1>3 DEF Position, Loading
<1>12. MutexStates'  BY <1>0, <1>2, Zenon DEF MutexStates, Starting, Ending
<1>13. \A q : Holder(q)' = Holder(q)  BY <1>0, Zenon DEF Holder
<1>14. ThreadIds'  BY <1>0, <1>2, <1>13, Zenon DEF ThreadIds, Ending
<1>15. Stops'  BY <1>0, <1>2, <1>13, Zenon DEF Stops, Starting
<1> QED  BY <1>0, <1>3, <1>4, <1>8, <1>9, <1>10, <1>11, <1>12, <1>14, <1>15, Zenon

(* The handler closes the library of the next output, then exits.          *)
LEMMA CloseOutputKeeps == ASSUME PInv, CloseOutput PROVE PInv'
<1> DEFINE p == <<"out", nthPlugin>>
<1> USE Frame, Plugs DEF PInv
<1>0. /\ UNCHANGED <<cmdline, early, synced, destroyed, stopFn, worker, living, cancelled,
                     stopCalls, wild>> /\ mainPc = "closeout"
      /\ All' = All /\ InCount' = InCount /\ OutCount' = OutCount /\ \A q : Lib(q)' = Lib(q)
      /\ \A n : ClosedOuts(n)' = ClosedOuts(n)
  BY Zenon DEF CloseOutput
<1>1. nthPlugin \in 1 .. OutCount /\ p \in All  BY <1>0, Zenon DEF Position
<1>2. \/ nthPlugin < OutCount /\ mainPc' = "closeout" /\ nthPlugin' = nthPlugin + 1
      \/ nthPlugin = OutCount /\ mainPc' = "exited" /\ nthPlugin' = 1
  BY <1>1, Loops DEF CloseOutput
<1>3. stopFn = All /\ stopFn' = All /\ cmdline \in CommandLines /\ All \subseteq Plugged(cmdline)
  BY <1>0, Zenon DEF Loading, PluginTypes, All
<1>4. Counts(cmdline, maps', All \ (Ins(InCount) \cup ClosedOuts(nthPlugin)))
  <2> DEFINE s == All \ (Ins(InCount) \cup ClosedOuts(nthPlugin - 1))
  <2>1. Counts(cmdline, maps, s)  BY <1>0, <1>3, Zenon DEF Closed
  <2>2. s \subseteq Plugged(cmdline)  BY <1>3, Zenon
  <2>3. CASE Shared(nthPlugin)
    <3>1. ClosedOuts(nthPlugin) = ClosedOuts(nthPlugin - 1)  BY <1>1, <2>3 DEF ClosedOuts
    <3>2. maps' = maps  BY <2>3, Zenon DEF CloseOutput
    <3> QED  BY <2>1, <3>1, <3>2, Zenon
  <2>4. CASE ~Shared(nthPlugin)
    <3>1. ClosedOuts(nthPlugin) = ClosedOuts(nthPlugin - 1) \cup {p}  BY <1>1, <2>4 DEF ClosedOuts
    <3>2. p \in s  BY <1>1 DEF Ins, ClosedOuts
    <3>3. s \ {p} = All \ (Ins(InCount) \cup ClosedOuts(nthPlugin))  BY <3>1, Zenon
    <3>4. maps' = [maps EXCEPT ![LibOf(cmdline, p)] = @ - 1]  BY <2>4, Zenon DEF CloseOutput, LibOf
    <3> HIDE DEF s
    <3> QED  BY <1>3, <2>1, <2>2, <3>2, <3>3, <3>4, CloseCounts, Zenon
  <2> QED  BY <2>3, <2>4, Zenon
<1>6. DOMAIN maps' = DOMAIN maps  BY Zenon DEF CloseOutput
<1>8. MapsBounded' /\ WildOnlyEarly' /\ UncancelledOutputMapped'
  BY <1>0, <1>4, <1>6, ClosingKeeps, Zenon
<1>9. mainPc' # "exited" => Closed' = Ins(InCount) \cup ClosedOuts(nthPlugin)
  BY <1>0, <1>1, <1>2, SMTT(30) DEF Closed
<1>10. PluginTypes'
  <2>1. (DOMAIN maps = {Lib(q) : q \in All})'  BY <1>0, <1>6 DEF PluginTypes
  <2>2. (/\ cmdline \in CommandLines /\ early \in BOOLEAN
         /\ mainPc \in Starting \cup Ending \cup {"pause", "exited"}
         /\ stopFn \subseteq All /\ living \subseteq All /\ cancelled \subseteq All)'
    BY <1>0, <1>2, Zenon DEF PluginTypes, Ending
  <2>3. (stopCalls \in [All -> 0 .. 1] /\ wild \subseteq {"stop", "cancel"})'
    BY <1>0, Zenon DEF PluginTypes
  <2>4. (/\ DOMAIN worker = {IdOf(cmdline, q) : q \in All}
         /\ \A v \in DOMAIN worker :
              worker[v] # NoThread => worker[v] \in All /\ IdOf(cmdline, worker[v]) = v)'
    BY <1>0, SMTT(30) DEF PluginTypes
  <2> QED  BY <2>1, <2>2, <2>3, <2>4, Zenon DEF PluginTypes
<1>11. Position' /\ Loading'  BY <1>0, <1>1, <1>2, <1>3 DEF Position, Loading
<1>12. MutexStates'  BY <1>0, <1>2, Zenon DEF MutexStates, Starting, Ending
<1>13. \A q : Holder(q)' = Holder(q)  BY <1>0, Zenon DEF Holder
<1>14. ThreadIds'  BY <1>0, <1>2, <1>13, Zenon DEF ThreadIds, Ending
<1>15. Stops'  BY <1>0, <1>2, <1>13, Zenon DEF Stops, Starting
<1> QED  BY <1>0, <1>3, <1>4, <1>8, <1>9, <1>10, <1>11, <1>12, <1>14, <1>15, Zenon

(* The invariant of start and end holds of every behaviour.                *)
THEOREM PluginInvariance == PluginSpec => []PInv
<1>1. ASSUME PluginInit  PROVE PInv
  <2> USE <1>1 DEF PluginInit
  <2>1. PluginTypes
    <3>1. All = Plugged(cmdline)  BY Zenon DEF All
    <3>2. DOMAIN maps = {Lib(q) : q \in All}  BY <3>1, Zenon
    <3>3. /\ DOMAIN worker = {IdOf(cmdline, q) : q \in All}
          /\ \A v \in DOMAIN worker : worker[v] = NoThread
      BY <3>1, Zenon
    <3>4. stopCalls \in [All -> 0 .. 1]  BY <3>1
    <3>5. mainPc \in Starting /\ early \in BOOLEAN  BY Zenon DEF Starting
    <3> QED  BY <3>2, <3>3, <3>4, <3>5, Zenon DEF PluginTypes
  <2> USE Plugs
  <2>2. Position  BY <2>1 DEF Position
  <2>3. Loading  BY <2>1 DEF Loading, Ins
  <2>4. MutexStates  BY <2>1 DEF MutexStates, Starting, Ending
  <2>5. ThreadIds  BY <2>1, Zenon DEF ThreadIds, Ending
  <2>6. Stops  BY <2>1, Zenon DEF Stops, All
  <2>7. Counts(cmdline, maps, stopFn \ Closed)
    <3>1. \A l : From(cmdline, stopFn \ Closed, l) = {}  BY Zenon DEF From
    <3> QED  BY <3>1, FS_EmptySet, Zenon DEF Counts
  <2>8. MapsBounded /\ WildOnlyEarly /\ UncancelledOutputMapped
    BY <2>1 DEF MapsBounded, WildOnlyEarly, UncancelledOutputMapped
  <2> QED  BY <2>1, <2>2, <2>3, <2>4, <2>5, <2>6, <2>7, <2>8, Zenon DEF PInv
<1>2. ASSUME PInv, [PluginNext]_pluginVars  PROVE PInv'
  <2>1. CASE UNCHANGED pluginVars
    <3> USE <1>2, <2>1 DEF PInv, pluginVars
    <3>1. PluginTypes' /\ Position' /\ Loading' /\ MutexStates'
      BY Frame DEF PluginTypes, Position, Loading, MutexStates
    <3>2. ThreadIds' /\ Stops'  BY Frame, ZenonT(30) DEF ThreadIds, Stops, Holder
    <3>3. Closed' = Closed  BY Frame, Zenon DEF Closed
    <3>4. MapsBounded' /\ WildOnlyEarly' /\ UncancelledOutputMapped'
      BY Frame, Zenon DEF MapsBounded, WildOnlyEarly, UncancelledOutputMapped
    <3> QED  BY <3>1, <3>2, <3>3, <3>4, Zenon
  <2> QED
    BY <1>2, <2>1, InitMutexesKeeps, LoadInputKeeps, LoadOutputKeeps, InitPluginKeeps,
       RunPluginKeeps, InterruptKeeps, StopInputKeeps, StopOutputKeeps, CloseInputKeeps,
       CloseOutputKeeps, ThreadEndsKeeps, Zenon DEF PluginNext
<1> QED  BY <1>1, <1>2, PTL DEF PluginSpec

(* Whatever the command line and whenever Ctrl-C comes, signal_handler     *)
(* calls each stop function at most once and closes no library more often  *)
(* than it was opened; a null pointer or an unset id is used only when     *)
(* main was still starting; otherwise every thread is cancelled before its *)
(* library is closed, where no two plugins share a `worker' variable, the  *)
(* code of an output's uncancelled thread stays mapped, and with as many   *)
(* inputs as outputs exactly the mutexes main made are destroyed.          *)
THEOREM ShutsDownSafely == PluginSpec => []ShutdownSafe
<1>1. ASSUME PInv  PROVE ShutdownSafe
  <2> USE <1>1, Plugs DEF PInv
  <2>1. PluginTypeOK
    BY Zenon DEF PluginTypeOK, PluginTypes, MapsBounded, InCount, OutCount, All
  <2>2. DistinctCancelled
    <3> SUFFICES ASSUME mainPc \in {"closein", "closeout"}, ~early, Distinct, NEW p \in living
                 PROVE  p \in cancelled
      BY Zenon DEF DistinctCancelled
    <3>1. p \in Ins(InCount) \cup Outs(OutCount) /\ p \in All  BY Zenon DEF PluginTypes
    <3>2. Holder(p) \in cancelled  BY <3>1, Zenon DEF Stops, Ins, Outs
    <3>3. Holder(p) # NoThread
      <4>1. cancelled \subseteq All  BY Zenon DEF PluginTypes
      <4> QED  BY <3>2, <4>1, Zenon
    <3>4. Holder(p) \in All /\ IdOf(cmdline, Holder(p)) = IdOf(cmdline, p)
      BY <3>1, <3>3, Zenon DEF Holder, PluginTypes
    <3>5. Holder(p) = p  BY <3>1, <3>4, Zenon DEF Distinct, All
    <3> QED  BY <3>2, <3>5, Zenon
  <2>3. DestroysWhatMainMade
    BY Zenon DEF DestroysWhatMainMade, MutexStates, InCount, OutCount, Ending
  <2> QED  BY <2>1, <2>2, <2>3, Zenon DEF ShutdownSafe
<1> QED  BY <1>1, PluginInvariance, PTL
=============================================================================
