------------------------------- MODULE Access -------------------------------
(***************************************************************************)
(* service/rbac: what the restore presets allow a user to do.              *)
(*                                                                         *)
(* A configuration is [admin |-> a group or None, presets |-> a function   *)
(* that gives each preset's ID its definition, or None].  A definition has *)
(* the name of its source database, the groups that may view and execute   *)
(* it (or None), and for each environment its target, or None.             *)
(***************************************************************************)
EXTENDS Naturals, FiniteSets

CONSTANTS
    Presets,  \* IDs of restore presets
    Envs,     \* names of environments
    None

\* RestorePreset, RestoreTarget: the presets a configuration has
PresetsOf(config) == {p \in Presets : config.presets[p] # None}

RestorePreset(source, view, execute, targets) ==
    [source |-> source, view |-> view, execute |-> execute, targets |-> targets]

RestoreTarget(name, owner) == [name |-> name, owner |-> owner]

\* findRestorePreset, then findRestoreTargetByEnvironment
FindRestorePreset(config, p) == config.presets[p]
FindRestoreTargetByEnvironment(preset, env) == preset.targets[env]

\* Group names are compared after their paths have been cut off; here they
\* are the last parts already.
HasGroup(groups, want) == want # None /\ want \in groups

Enabled(config) ==
    \/ config.admin # None
    \/ \E p \in PresetsOf(config) :
           config.presets[p].view # None \/ config.presets[p].execute # None

Unrestricted ==
    [all |-> TRUE, view |-> {}, execute |-> {}, viewNames |-> {}, executeNames |-> {}]

Restricted(config, groups) ==
    LET Executes == {p \in PresetsOf(config) :
                        HasGroup(groups, config.presets[p].execute)}
        Views == Executes \cup {p \in PresetsOf(config) :
                                   HasGroup(groups, config.presets[p].view)}
        Sources(ps) == {config.presets[p].source : p \in ps}
    IN [all |-> FALSE, view |-> Views, execute |-> Executes,
        viewNames |-> Sources(Views), executeNames |-> Sources(Executes)]

\* Service.Access
AccessOf(config, groups, fullAccess) ==
    IF ~Enabled(config) \/ fullAccess \/ HasGroup(groups, config.admin)
    THEN Unrestricted
    ELSE Restricted(config, groups)

CanManageApp(access) == access.all
CanViewPreset(access, p) == access.all \/ p \in access.view
CanExecutePreset(access, p) == access.all \/ p \in access.execute
CanViewPbwName(access, name) == access.all \/ name \in access.viewNames
CanExecutePbwName(access, name) == access.all \/ name \in access.executeNames

\* middleware.RequireRestoreAccess
RequireRestoreAccess(config, groups, fullAccess) ==
    ~Enabled(config)
    \/ \E p \in PresetsOf(config) :
           CanViewPreset(AccessOf(config, groups, fullAccess), p)
=============================================================================
