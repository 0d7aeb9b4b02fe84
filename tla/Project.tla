----------------------------- MODULE Project -----------------------------
(***************************************************************************)
(* A project on its user's disk: the commands `new`, `init`, `migrate` and *)
(* `run`, of which each may be killed at any step and started again, what  *)
(* the user edits and removes between them, and the contracts changing     *)
(* meanwhile (cli.py:263-417 and 823-886, project.py:300-411).             *)
(***************************************************************************)
EXTENDS CodeGeneration

CONSTANTS
  Template,       \* the config of the template that `new` is given
  MaxCommands,    \* commands that are started
  MaxEdits,       \* changes by the user and of contracts
  MaxStops,       \* kills and answers that are lost
  NoCommand       \* instead of a command

(* torn_abi: a kill between creating the file of an ABI and writing it.     *)
(* torn_hook: a kill between the stub of a hook and its SQL directory.      *)
(* buffered: `buffer_size` with the default rollback_depth of TzKT.         *)
(* factory: a factory uses a template that no index of the config has.      *)
(* forced_abi: types are forced when the ABI in the package is old.         *)
(* refetched_abi: an ABI is removed and the types made of it are not.       *)
(* relayout: versions of a runtime differ in the event.                     *)
(* edited_root: the user edits the module that imports a runtime's types.   *)
(* migrates: `migrate` in a project with edits.                             *)
CircumstanceNames ==
  {"torn_abi", "torn_hook", "buffered", "factory", "forced_abi", "refetched_abi",
   "relayout", "edited_root", "migrates"}

ASSUME CircumstancesAssumption == Circumstances \subseteq CircumstanceNames
ASSUME TemplateAssumption == Template \in Configs

VARIABLES
  config,     \* what the user's config says, or NoConfig
  settled,    \* `init` has gone through and nothing asks for another one
  renewed,    \* the contracts whose files it had to make anew
  commands, edits, stops

vars == <<files, command, loaded, chain, tasks, failure, config, settled, renewed,
          commands, edits, stops>>

NoFailure == "none"
Idle == command = NoCommand

TypeOK ==
  /\ files \in [Files -> SUBSET {"v1", "v2", "only", "stub", "base", "env", "edited"}
                           \cup {NoFile}]
  /\ chain \in [Contracts -> 1 .. 2]
  /\ config \in Configs \cup {NoConfig} /\ loaded \in Configs \cup {NoConfig}
  /\ settled \in BOOLEAN /\ renewed \subseteq Contracts

Init ==
  /\ files = [f \in Files |-> NoFile]
  /\ command = NoCommand /\ loaded = NoConfig
  /\ chain = [c \in Contracts |-> 1]
  /\ tasks = <<>> /\ failure = NoFailure
  /\ config = NoConfig /\ settled = FALSE /\ renewed = {}
  /\ commands = 0 /\ edits = 0 /\ stops = 0

-----------------------------------------------------------------------------
(* Commands.                                                                *)

(* Nothing that was made for the contract is left.                          *)
Unmade(c) ==
  /\ \A s \in Slots(c) : ~Exists(Type(c, s))
  /\ KindOf[c] \in {"evm", "starknet"} => ~Exists(Abi(c))

AbiIsOld(c) ==
  /\ KindOf[c] \in {"evm", "starknet"}
  /\ files[Abi(c)] \notin {NoFile, {Version[chain[c]]}}

Start(cmd, first) ==
  /\ Idle /\ commands < MaxCommands
  /\ command' = cmd /\ tasks' = first
  /\ failure' = NoFailure /\ settled' = FALSE
  /\ commands' = commands + 1
  /\ UNCHANGED <<files, loaded, chain, config, edits, stops>>

Forcing(cmd) == IF cmd.include = "" THEN cmd.force ELSE cmd.include = "types"

ToInit == <<Task("load", ""), Task("generate", "")>>

(* What the last `init` made stays made for those who do not ask again.     *)
ToRenew(forced) == {c \in Contracts : forced \/ Unmade(c)}

RunInit ==
  /\ config # NoConfig
  /\ \E force \in BOOLEAN, base \in BOOLEAN, include \in Included :
       LET cmd == [name |-> "init", force |-> force,
                   base |-> base \/ include # "", include |-> include]
       IN /\ Forcing(cmd) /\ "forced_abi" \notin Circumstances
               => \A c \in Contracts : ~AbiIsOld(c)
          /\ Start(cmd, ToInit)
          /\ renewed' = ToRenew(Forcing(cmd))

(* migrate, and then `init --base --force`.                                 *)
RunMigrate ==
  /\ config # NoConfig
  /\ "migrates" \in Circumstances \/ \A f \in Files : ~Edited(f)
  /\ "forced_abi" \notin Circumstances => \A c \in Contracts : ~AbiIsOld(c)
  /\ Start([name |-> "migrate", force |-> TRUE, base |-> TRUE, include |-> ""], ToInit)
  /\ renewed' = ToRenew(TRUE)

(* render_project: the base, and the config, models and handlers of a       *)
(* template.                                                                *)
TemplateFiles == {Base, Models} \cup {Handler(c) : c \in Indexed(Resolved(Template))}

RunNew ==
  /\ \E force \in BOOLEAN :
       /\ force /\ "forced_abi" \notin Circumstances
            => \A c \in Contracts : ~AbiIsOld(c)
       /\ Start([name |-> "new", force |-> force, base |-> FALSE, include |-> ""],
                <<Task("render_config", "")>> \o Each("render", TemplateFiles) \o ToInit)
       /\ renewed' = ToRenew(force)

RenderConfig ==
  /\ NextIs("render_config")
  /\ config' = IF config = NoConfig \/ command.force THEN Template ELSE config
  /\ Done /\ UNCHANGED <<files, chain, settled, renewed, commands, edits, stops>>

Render ==
  /\ NextIs("render")
  /\ files' = Written(Arg, IF Arg = Base THEN {"base"} ELSE {"stub"}, command.force)
  /\ Done /\ UNCHANGED <<chain, config, settled, renewed, commands, edits, stops>>

(* DipDupConfig.load and initialize, and the skeleton of the package, before*)
(* the command begins.                                                      *)
Load ==
  /\ NextIs("load")
  /\ IF Refused(Resolved(config))
     THEN Fails("config")
     ELSE /\ loaded' = Initialized(config) /\ tasks' = Tail(tasks)
          /\ files' = Touched(Skeleton)
          /\ UNCHANGED <<command, failure>>
  /\ UNCHANGED <<chain, config, settled, renewed, commands, edits, stops>>

BeginGeneration ==
  /\ NextIs("generate") /\ tasks' = Generation \o Tail(tasks)
  /\ UNCHANGED <<files, command, loaded, chain, failure, config, settled, renewed,
                 commands, edits, stops>>

GenerateNext ==
  /\ Generate
  /\ stops' = IF failure' = "network" THEN stops + 1 ELSE stops
  /\ stops' <= MaxStops
  /\ UNCHANGED <<chain, config, settled, renewed, commands, edits>>

(* The process ends, with or without an error.                              *)
Exit ==
  /\ ~Idle /\ tasks = <<>>
  /\ command' = NoCommand /\ loaded' = NoConfig
  /\ settled' = (failure = NoFailure)
  /\ UNCHANGED <<files, chain, tasks, failure, config, renewed, commands, edits, stops>>

(* It is killed.                                                            *)
Kill ==
  /\ ~Idle /\ tasks # <<>> /\ stops < MaxStops
  /\ Current[1] = "abi_bytes" => "torn_abi" \in Circumstances
  /\ Current[1] = "sql" => "torn_hook" \in Circumstances
  /\ command' = NoCommand /\ loaded' = NoConfig /\ tasks' = <<>>
  /\ stops' = stops + 1
  /\ UNCHANGED <<files, chain, failure, config, settled, renewed, commands, edits>>

(* What `run` stops on: the config once more, the package, a hook, or the   *)
(* handler of an index that a factory has added.                            *)
Refusal ==
  IF Refused(Resolved(config)) \/ Refused(Resolved(Initialized(config))) THEN "config"
  ELSE IF Missing(Initialized(config)) THEN "package"
  ELSE IF \E c \in Spawned(config) : Missing(Added(Initialized(config), c)) THEN "factory"
  ELSE NoFailure

Run ==
  /\ Idle /\ settled /\ commands < MaxCommands /\ commands' = commands + 1
  /\ failure' = Refusal /\ files' = Touched(Skeleton)
  /\ UNCHANGED <<command, loaded, chain, tasks, config, settled, renewed, edits, stops>>

-----------------------------------------------------------------------------
(* The user, and the chain.                                                 *)

Change == edits < MaxEdits /\ edits' = edits + 1
Kept == UNCHANGED <<command, loaded, tasks, failure, commands, stops>>

EditConfig ==
  /\ Idle /\ config # NoConfig /\ Change
  /\ \/ \E c \in Contracts, e \in Entries :
          /\ e = "factory" => "factory" \in Circumstances
          /\ config.entries[c] = "none"
          /\ config' = [config EXCEPT !.entries[c] = e]
     \/ \E h \in Hooks \ config.hooks : config' = [config EXCEPT !.hooks = @ \cup {h}]
     \/ /\ ~config.buffered
        /\ \E s \in {0, 2} :
             /\ s # 0 => "buffered" \in Circumstances
             /\ config' = [config EXCEPT !.buffered = TRUE, !.source = s]
  /\ settled' = FALSE
  /\ Kept /\ UNCHANGED <<files, chain, renewed>>

(* The user fills in a stub or changes a type, and nothing else needs to    *)
(* change with it.                                                          *)
Editable(f) ==
  \/ f[1] \in {"handlers", "hooks", "models", "base"}
  \/ f[1] = "types" /\ (f[3] = "init" => "edited_root" \in Circumstances)

EditFile ==
  /\ Idle /\ Change
  /\ \E f \in {g \in Files : Exists(g) /\ Editable(g)} :
       files' = [files EXCEPT ![f] = {"edited"}]
  /\ Kept /\ UNCHANGED <<chain, config, settled, renewed>>

(* Files are removed to have them made again; a directory for SQL because   *)
(* the hook does without.                                                   *)
Removed(fs) == [f \in Files |-> IF f \in fs THEN NoFile ELSE files[f]]

RemoveTypes ==
  /\ Idle /\ Change
  /\ \E c \in Contracts : files' = Removed({Type(c, s) : s \in Slots(c)})
  /\ settled' = FALSE
  /\ Kept /\ UNCHANGED <<chain, config, renewed>>

RemoveAbi ==
  /\ Idle /\ Change
  /\ \E c \in Contracts :
       /\ KindOf[c] \in {"evm", "starknet"}
       /\ \/ files' = Removed({Abi(c)} \cup {Type(c, s) : s \in Slots(c)})
          \/ "refetched_abi" \in Circumstances /\ files' = Removed({Abi(c)})
  /\ settled' = FALSE
  /\ Kept /\ UNCHANGED <<chain, config, renewed>>

RemoveSql ==
  /\ Idle /\ Change
  /\ \E h \in Hooks \cup {SystemHook} : Edited(Hook(h)) /\ files' = Removed({Sql(h)})
  /\ Kept /\ UNCHANGED <<chain, config, settled, renewed>>

(* An upgrade of a runtime, or a contract of the config with another        *)
(* address.                                                                 *)
Upgrade ==
  /\ Change
  /\ \E c \in Contracts :
       /\ chain[c] = 1 /\ chain' = [chain EXCEPT ![c] = 2]
       /\ renewed' = renewed \ {c}
       /\ settled' = (settled /\ KindOf[c] # "substrate")
  /\ Kept /\ UNCHANGED <<files, config>>

Next ==
  \/ RunNew \/ RunInit \/ RunMigrate \/ Run
  \/ RenderConfig \/ Render \/ Load \/ BeginGeneration \/ GenerateNext \/ Exit \/ Kill
  \/ EditConfig \/ EditFile \/ RemoveTypes \/ RemoveAbi \/ RemoveSql \/ Upgrade

Spec == Init /\ [][Next]_vars

-----------------------------------------------------------------------------
(* Properties.                                                              *)

(* "This command is idempotent, meaning it won't overwrite previously       *)
(* generated files unless asked explicitly" (cli.py:365): --force asks for  *)
(* types (cli.py:347), and with --base or a path for what these name; `new` *)
(* asks for all it has a template of.                                       *)
Asked(f) ==
  \/ f[1] = "types" /\ ForcesTypes
  \/ f = Base /\ command.force /\ (command.base \/ command.name = "new")
  \/ command.name = "new" /\ command.force /\ f \in TemplateFiles

Precious(f) ==
  \/ f[1] \in {"abi", "handlers", "hooks", "sql", "models", "base"}
  \/ f[1] = "types" /\ (f[3] = "init" => Edited(f))

(* A command never changes a file that the user, or a command before it,    *)
(* has left with something in it, unless it was asked to: neither the ABIs  *)
(* that are fetched again, nor the callbacks whose stubs are generated      *)
(* again, nor what an interrupted command has made.  Migrating is no        *)
(* permission.                                                              *)
FilesKept ==
  [][~Idle => \A f \in Files :
       Precious(f) /\ files[f] \notin {NoFile, {}} /\ files'[f] # files[f]
         => Asked(f) /\ (Edited(f) => command.name # "migrate")]_vars

(* No command fails but for a datasource that does not answer: `init`       *)
(* finishes what one that was killed has begun, and after it `run` finds    *)
(* its config valid and whatever it imports and executes in the package.    *)
NeverFails == failure \in {NoFailure, "network"}

Newest(c) == {{Version[chain[c]]}, {"edited"}}

(* What `init` makes anew, because it is not there or types are forced, is  *)
(* made for the contract as it is: schemas of an earlier command never come *)
(* into it, and forcing types is forcing ABIs (cli.py:347, docs/12.faq.md:37).*)
RenewedAreCurrent ==
  settled => \A c \in renewed \cap Indexed(Resolved(config)) :
    KindOf[c] # "substrate" => files[Type(c, "only")] \in Newest(c)

(* After `init` the types of a contract agree with the ABI that `run` will  *)
(* decode its data with, and a runtime has a type for every version of the  *)
(* event.                                                                   *)
TypesDecode ==
  settled => \A c \in Indexed(Resolved(config)) :
    IF KindOf[c] = "substrate"
    THEN \A v \in Upto(chain[c]) : \E s \in Imported(c) :
           files[Type(c, s)] \in {{Layout(v)}, {"edited"}}
    ELSE KindOf[c] # "tezos"
           => files[Type(c, "only")] \in {files[Abi(c)], {"edited"}}
=============================================================================
