----------------------------- MODULE KconfigSym ------------------------------
(***************************************************************************)
(* The symbols of kconfig and the files they are kept in                   *)
(* (support/kconfig/symbol.c, confdata.c, the end of menu_finalize and the *)
(* commands of conf.c and mconf.c).  Buildroot declares no tristate symbol *)
(* and no "option modules", and none of its choices is optional: symbols   *)
(* are boolean, a value is 0 (n) or 2 (y), and a choice that is visible    *)
(* has one member that is y.                                               *)
(*                                                                         *)
(* A Kconfig file is a sequence of entries, in an order in which an entry  *)
(* depends on earlier ones only (sym_check_deps refuses a cycle).  The     *)
(* memory of a configurator is a record of the fields of struct symbol.    *)
(* A configuration file is a function from the symbols it has a line for   *)
(* to their values; a file that does not exist is NoFile.                  *)
(***************************************************************************)
EXTENDS KconfigExpr, SequencesExt

CONSTANTS Kconfigs,    \* the Kconfig files
          MaxSets,     \* how many values are set in a session
          MaxRuns,     \* how many sessions there are
          RenameFails  \* the second rename of conf_write may fail

ASSUME SymAssumption == MaxSets \in Nat /\ MaxRuns \in Nat /\ RenameFails \in BOOLEAN

VARIABLES kconf,        \* the Kconfig file after menu_finalize
          mem,          \* the symbols of the running configurator
          changed,      \* sym_change_count is not 0
          conf,         \* "off", "menu" (mconf) or "batch" (conf --allyesconfig)
          saving,       \* where conf_write is: "no", or before a rename
          config, configOld, tmpconfig,  \* .config, .config.old, .tmpconfig
          lastSaved,    \* what the last conf_write that returned 0 wrote
          saveFailed,   \* a conf_write of this session did not return 0
          setsLeft, runsLeft

symVars == <<kconf, mem, changed, conf, saving, config, configOld, tmpconfig,
             lastSaved, saveFailed, setsLeft, runsLeft>>

None   == "none"
NoFile == [nofile |-> 1]
NoPrompt == [t |-> "none"]

-----------------------------------------------------------------------------
(* menu_finalize: an entry's dependency, with its parent's, goes into the  *)
(* visibility of its properties; a select adds to the target's rev_dep.    *)

EntryDep(e) ==
    LET parentdep == IF e.choice = None THEN Null ELSE Sym(e.choice)
    IN  EliminateDups(AllocTwo("and", parentdep, Transform(e.dep)))

PropDep(e, visible) ==
    TransBool(EliminateDups(AllocTwo("and", EntryDep(e), Transform(visible))))

PromptDep(e) == IF e.prompt = NoPrompt THEN Sym("n") ELSE PropDep(e, e.prompt)

Selects(file, e) ==
    FoldLeft(LAMBDA acc, f : AllocTwo("or", acc, AllocTwo("and", Sym(f.s), PropDep(f, Null))),
             Null, SelectSeq(file, LAMBDA f : e.s \in f.selects))

Chosen(e) == IF e.members = {} THEN Null ELSE AllocTwo("and", PromptDep(e), Sym("m"))

OrN(e) == IF e = Null THEN Sym("n") ELSE e

RevDep(file, e) == OrN(AllocTwo("or", Selects(file, e), Chosen(e)))

Finalized(file) ==
    [i \in DOMAIN file |->
       LET e == file[i]
       IN  [s |-> e.s, choice |-> e.choice, members |-> e.members,
            visible |-> PromptDep(e), dep |-> EntryDep(e), rev |-> RevDep(file, e),
            defaults |-> [j \in DOMAIN e.defaults |->
              [val |-> e.defaults[j].val, visible |-> PropDep(e, e.defaults[j].if)]]]]

Syms == {kconf[i].s : i \in DOMAIN kconf}
Entry(s) == kconf[CHOOSE i \in DOMAIN kconf : kconf[i].s = s]
IsChoice(s) == Entry(s).members # {}
IsMember(s) == Entry(s).choice # None
ChoiceSyms == {s \in Syms : IsChoice(s)}
Members(c) == Entry(c).members
Listed == SelectSeq([i \in DOMAIN kconf |-> kconf[i].s], LAMBDA s : ~IsChoice(s))

-----------------------------------------------------------------------------
(* sym_calc_value *)

(* sym_calc_visibility *)
Bool(v) == IF v = 0 THEN 0 ELSE 2
Visible(s, cur) == Bool(CalcValue(Entry(s).visible, cur))
Rev(s, cur) == IF IsMember(s) THEN 0 ELSE Bool(CalcValue(Entry(s).rev, cur))

(* The first default whose condition holds (sym_get_default_prop). *)
DefaultProps(s, cur) ==
    SelectSeq(Entry(s).defaults, LAMBDA d : CalcValue(d.visible, cur) # 0)

DefaultValue(s, cur) ==
    LET p == DefaultProps(s, cur)
    IN  IF p = <<>> THEN 0 ELSE CalcValue(Head(p).val, cur)

(* sym_choice_default *)
ChoiceDefault(c, cur) ==
    LET shown(m) == Visible(m, cur) # 0
        named    == SelectSeq(DefaultProps(c, cur), LAMBDA d : shown(d.val.s))
        listed   == SelectSeq(Listed, LAMBDA m : m \in Members(c) /\ shown(m))
    IN  CASE named # <<>>  -> Head(named).val.s
          [] listed # <<>> -> Head(listed)
          [] OTHER         -> None

(* sym_calc_choice *)
CalcChoice(c, k) ==
    LET shown == {m \in Members(c) : Visible(m, k.cur) # 0}
        sel   == IF k.chosen[c] \in shown THEN k.chosen[c] ELSE ChoiceDefault(c, k.cur)
    IN  [k EXCEPT !.has[c] = @ /\ \A m \in shown : k.has[m],
                  !.sel[c] = sel,
                  !.cur[c] = IF sel = None THEN 0 ELSE 2,
                  !.write = [m \in Syms |-> @[m] \/ m \in shown]]

(* The user's value where the symbol is visible, else the default; what    *)
(* selects it wins over both.                                              *)
MutOwnValue(s, k) == IF k.has[s] THEN k.def[s] ELSE DefaultValue(s, k.cur)

OwnValue(s, k) ==
    IF Visible(s, k.cur) # 0 /\ k.has[s] THEN Min({k.def[s], Visible(s, k.cur)})
    ELSE IF IsChoice(s) THEN 0 ELSE DefaultValue(s, k.cur)

SymCalcValue(k, s) ==
    LET vis   == Visible(s, k.cur)
        write == \/ vis # 0 \/ Rev(s, k.cur) # 0
                 \/ ~IsChoice(s) /\ DefaultProps(s, k.cur) # <<>>
        val   == IF IsMember(s) /\ vis = 2
                 THEN IF k.sel[Entry(s).choice] = s THEN 2 ELSE 0
                 ELSE Max({OwnValue(s, k), Rev(s, k.cur)})
        k1    == [k EXCEPT !.cur[s] = val, !.vis[s] = vis,
                           !.write[s] = IF IsMember(s) THEN @ ELSE write /\ ~IsChoice(s)]
    IN  IF ~IsChoice(s) THEN k1
        ELSE IF val = 2 THEN CalcChoice(s, k1)
        ELSE [k1 EXCEPT !.sel[s] = None]

(* Every value, after sym_clear_all_valid. *)
Calc(k) == FoldLeft(LAMBDA acc, e : SymCalcValue(acc, e.s),
                    [k EXCEPT !.cur = [s \in Syms |-> 0]], kconf)

-----------------------------------------------------------------------------
(* sym_set_tristate_value *)

(* sym_is_changable, sym_tristate_within_range *)
Changable(k, s) == k.vis[s] > Rev(s, k.cur)

WithinRange(k, s, v) ==
    /\ Changable(k, s)
    /\ IsMember(s) => v = 2

SetAllowed(k, s, v) == k.cur[s] = v \/ WithinRange(k, s, v)

(* Setting a choice value marks the choice and its visible values as set.  *)
MutMarked(k, s, v) == [k EXCEPT !.has[s] = TRUE, !.def[s] = v]

Marked(k, s, v) ==
    LET k1 == [k EXCEPT !.has[s] = TRUE, !.def[s] = v]
        c  == Entry(s).choice
    IN  IF ~(IsMember(s) /\ v = 2) THEN k1
        ELSE [k1 EXCEPT !.chosen[c] = s,
                        !.has = [m \in Syms |->
                           @[m] \/ m = c \/ (m \in Members(c) /\ k.vis[m] # 0)]]

SymSet(k, s, v) == IF k.cur[s] = v THEN Marked(k, s, v) ELSE Calc(Marked(k, s, v))

(* sym_toggle_tristate_value tries the other values, then the present one. *)
ToggleTo(k, s) == IF SetAllowed(k, s, 2 - k.cur[s]) THEN 2 - k.cur[s] ELSE k.cur[s]

-----------------------------------------------------------------------------
(* Files *)

Blank == [cur |-> [s \in Syms |-> 0], vis |-> [s \in Syms |-> 0],
          def |-> [s \in Syms |-> 0], has |-> [s \in Syms |-> FALSE],
          write |-> [s \in Syms |-> FALSE],
          sel |-> [s \in Syms |-> None], chosen |-> [s \in Syms |-> None]]

(* conf_read_simple: the last y among the values of a choice is chosen. *)
ReadSimple(file) ==
    LET yes(c) == SelectSeq(Listed, LAMBDA m : m \in Members(c) /\ m \in DOMAIN file
                                                  /\ file[m] = 2)
        on(s)  == IF IsChoice(s) THEN yes(s) # <<>> ELSE s \in DOMAIN file /\ file[s] = 2
    IN  [Blank EXCEPT !.has = [s \in Syms |-> IsChoice(s) \/ s \in DOMAIN file],
                      !.def = [s \in Syms |-> IF on(s) THEN 2 ELSE 0],
                      !.chosen = [s \in Syms |-> IF IsChoice(s) /\ on(s) THEN Last(yes(s))
                                                 ELSE None]]

(* The symbols on which the file and the values computed from it disagree. *)
Unsaved(k) ==
    {s \in Syms \ ChoiceSyms :
       IF k.has[s] /\ k.write[s] THEN k.def[s] # k.cur[s] ELSE k.has[s] \/ k.write[s]}

(* conf_read: a value that cannot be seen becomes new again, unless the    *)
(* file and the values disagree.                                           *)
ConfRead(file) ==
    LET k == Calc(ReadSimple(file))
    IN  IF Unsaved(k) # {} THEN k
        ELSE [k EXCEPT !.has = [s \in Syms |-> @[s] /\ (IsMember(s) \/ k.vis[s] # 0)]]

(* The lines conf_write prints, one per symbol whose SYMBOL_WRITE is set,  *)
(* which it resets as it goes.                                             *)
Lines(k) == [s \in {x \in Syms \ ChoiceSyms : k.write[x]} |-> k.cur[s]]

Printed(k) == [k EXCEPT !.write = [s \in Syms |-> FALSE]]

(* conf_write_defconfig; StringDefault is sym_get_string_default.  *)
StringDefault(k, s) == Max({DefaultValue(s, k.cur), Rev(s, k.cur)})

MutRedundant(k, s) == ~Changable(k, s) \/ k.cur[s] = Rev(s, k.cur)

Redundant(k, s) ==
    \/ ~Changable(k, s)
    \/ k.cur[s] = StringDefault(k, s)
    \/ IsMember(s) /\ k.cur[s] = 2 /\ s = ChoiceDefault(Entry(s).choice, k.cur)

Defconfig(k) == [s \in {x \in DOMAIN Lines(k) : ~Redundant(k, x)} |-> k.cur[s]]

(* conf_set_all_new_symbols: def_default leaves the values alone and marks *)
(* the choices (set_all_choice_values).                                    *)
SetNew(k, mode) ==
    LET k1 == IF mode = "default" THEN k
              ELSE [k EXCEPT !.def = [s \in Syms |-> IF k.has[s] THEN @[s]
                                                     ELSE IF mode = "yes" THEN 2 ELSE 0],
                             !.has = [s \in Syms |-> TRUE]]
    IN  Calc([k1 EXCEPT !.has = [s \in Syms |-> @[s] \/ IsChoice(s)]])

-----------------------------------------------------------------------------
(* Sessions *)

SymTypeOK ==
    /\ mem.cur \in [Syms -> {0, 2}] /\ mem.def \in [Syms -> {0, 2}]
    /\ mem.has \in [Syms -> BOOLEAN] /\ mem.write \in [Syms -> BOOLEAN]
    /\ \A c \in ChoiceSyms : {mem.sel[c], mem.chosen[c]} \subseteq Members(c) \cup {None}
    /\ changed \in BOOLEAN /\ conf \in {"off", "menu", "batch"}
    /\ saving \in {"no", "old", "new"}
    /\ setsLeft \in 0..MaxSets /\ runsLeft \in 0..MaxRuns

SymInit ==
    /\ kconf \in {Finalized(f) : f \in Kconfigs}
    /\ mem = Blank /\ changed = FALSE
    /\ conf = "off" /\ saving = "no"
    /\ config = NoFile /\ configOld = NoFile /\ tmpconfig = NoFile /\ lastSaved = NoFile
    /\ saveFailed = FALSE /\ setsLeft = MaxSets /\ runsLeft = MaxRuns

fileVars == <<config, configOld, tmpconfig, lastSaved>>

(* main of mconf: conf_read(NULL), which resets nothing without a file. *)
StartMenu ==
    /\ conf = "off" /\ runsLeft > 0
    /\ conf' = "menu"
    /\ IF config = NoFile
       THEN mem' = Calc(Blank) /\ changed' = TRUE
       ELSE mem' = ConfRead(config) /\ changed' = (Unsaved(Calc(ReadSimple(config))) # {})
    /\ saveFailed' = FALSE /\ setsLeft' = MaxSets /\ runsLeft' = runsLeft - 1
    /\ UNCHANGED <<kconf, saving, fileVars>>

(* main of conf: allyesconfig, allnoconfig, alldefconfig. *)
StartBatch(mode) ==
    /\ conf = "off" /\ runsLeft > 0
    /\ conf' = "batch"
    /\ mem' = SetNew(Blank, mode) /\ changed' = TRUE
    /\ runsLeft' = runsLeft - 1
    /\ UNCHANGED <<kconf, saving, fileVars, saveFailed, setsLeft>>

Set(s, v) ==
    /\ conf = "menu" /\ saving = "no" /\ setsLeft > 0
    /\ SetAllowed(mem, s, v)
    /\ mem' = SymSet(mem, s, v)
    /\ changed' = (changed \/ mem.cur[s] # v)
    /\ setsLeft' = setsLeft - 1
    /\ UNCHANGED <<kconf, conf, saving, fileVars, saveFailed, runsLeft>>

Toggle(s) == Set(s, ToggleTo(mem, s))

(* conf_write, up to fclose *)
WriteTmp ==
    /\ conf # "off" /\ saving = "no"
    /\ LET k == IF changed THEN mem ELSE Calc(mem)
       IN  tmpconfig' = Lines(k) /\ mem' = Printed(k)
    /\ changed' = TRUE
    /\ saving' = "old"
    /\ UNCHANGED <<kconf, conf, config, configOld, lastSaved, saveFailed, setsLeft, runsLeft>>

(* rename(newname, ".config.old"), whose result is not looked at *)
RenameOld ==
    /\ saving = "old" /\ saving' = "new"
    /\ configOld' = IF config = NoFile THEN configOld ELSE config
    /\ config' = NoFile
    /\ UNCHANGED <<kconf, mem, changed, conf, tmpconfig, lastSaved, saveFailed,
                   setsLeft, runsLeft>>

RenameNew ==
    /\ saving = "new" /\ saving' = "no"
    /\ config' = tmpconfig /\ tmpconfig' = NoFile /\ lastSaved' = tmpconfig
    /\ changed' = FALSE
    /\ conf' = IF conf = "batch" THEN "off" ELSE conf
    /\ mem' = IF conf = "batch" THEN Blank ELSE mem
    /\ UNCHANGED <<kconf, configOld, saveFailed, setsLeft, runsLeft>>

(* return 1: mconf asks for another name, conf exits *)
RenameFailed ==
    /\ RenameFails /\ saving = "new" /\ saving' = "no"
    /\ conf' = IF conf = "batch" THEN "off" ELSE conf
    /\ mem' = IF conf = "batch" THEN Blank ELSE mem
    /\ saveFailed' = TRUE
    /\ UNCHANGED <<kconf, changed, fileVars, setsLeft, runsLeft>>

(* The user leaves, or the configurator is killed anywhere. *)
Leave ==
    /\ conf # "off" /\ conf' = "off" /\ saving' = "no"
    /\ mem' = Blank /\ changed' = FALSE
    /\ UNCHANGED <<kconf, fileVars, saveFailed, setsLeft, runsLeft>>

SymNext ==
    \/ StartMenu \/ \E mode \in {"yes", "no", "default"} : StartBatch(mode)
    \/ \E s \in Syms \ ChoiceSyms : Toggle(s) \/ \E v \in {0, 2} : Set(s, v)
    \/ WriteTmp \/ RenameOld \/ RenameNew \/ RenameFailed \/ Leave

SymSpec == SymInit /\ [][SymNext]_symVars

-----------------------------------------------------------------------------
(* Properties *)

(* A choice that is on has exactly one member that is y, and the member is *)
(* visible; a choice that is off has none, whatever was chosen before the  *)
(* chosen member was hidden (sym_calc_choice, sym_calc_value).             *)
OneMember ==
    conf # "off" => \A c \in ChoiceSyms :
      LET on == {m \in Members(c) : mem.cur[m] = 2}
      IN  /\ Cardinality(on) = IF mem.cur[c] = 2 THEN 1 ELSE 0
          /\ \A m \in on : mem.vis[m] = 2

(* A symbol is y only while its own dependencies hold or a symbol that is  *)
(* y selects it: menu_finalize puts the dependencies into the prompt and   *)
(* into every default.                                                     *)
DepsRespected ==
    conf # "off" => \A s \in Syms \ ChoiceSyms : mem.cur[s] = 2 =>
      CalcValue(Entry(s).dep, mem.cur) # 0 \/ Rev(s, mem.cur) = 2

(* The values do not depend on when they are computed: sym_clear_all_valid *)
(* alone (conf_write calls it) changes none of them.                       *)
RecalcStable == conf # "off" => Calc(mem).cur = mem.cur

(* When the configurator says that nothing is left to save, reading        *)
(* .config gives the values it shows: the claim of mconf's save dialog.    *)
UnchangedMeansSaved ==
    conf = "menu" /\ saving = "no" /\ ~changed =>
      config # NoFile /\ ConfRead(config).cur = mem.cur

(* The claim holds in a session in which no save has failed.  (The flags   *)
(* conf_write leaves on the symbols it has printed make a second try write *)
(* a file without them.)                                                   *)
FirstSaveIsWhole == saveFailed \/ UnchangedMeansSaved

(* "All values that has default values are skipped as this is redundant":  *)
(* make savedefconfig, then make defconfig, gives the values back.         *)
MinimalIsEnough ==
    conf = "off" /\ config # NoFile =>
      LET k == ConfRead(config)
      IN  SetNew(ConfRead(Defconfig(k)), "default").cur = k.cur

(* What the last successful save wrote is in .config or in .config.old at  *)
(* every moment, a kill between the two renames included.                  *)
LastSaveKept == lastSaved # NoFile => lastSaved \in {config, configOld}

(* A value that sym_set_tristate_value accepts is the value the symbol has *)
(* from then on.                                                           *)
SetTakesEffect ==
    [][\A s \in Syms \ ChoiceSyms, v \in {0, 2} : Set(s, v) => mem'.cur[s] = v]_symVars

(* The values of the symbols are a configuration: within their             *)
(* dependencies and choices, and the same when computed again.             *)
ValuesSound == SymTypeOK /\ RecalcStable /\ OneMember /\ DepsRespected

(* What is saved, in full or as a minimal configuration, gives the values  *)
(* back, and no failing rename or kill loses the last save.                *)
SavesSound == FirstSaveIsWhole /\ MinimalIsEnough /\ LastSaveKept
=============================================================================
