------------------------- MODULE CodeGeneration --------------------------
(***************************************************************************)
(* What `dipdup init` writes, file by file: five generators, one after     *)
(* another, each with the same steps, and the environment files at the end *)
(* (dipdup.py:656-697, codegen/__init__.py:83-333, codegen/evm.py,         *)
(* codegen/starknet.py, codegen/substrate.py, codegen/tezos.py).           *)
(*                                                                         *)
(* A command is a sequence of tasks, each with the contract, hook or       *)
(* generator it is for; what a task does depends on the files it finds.    *)
(***************************************************************************)
EXTENDS Package, SequencesExt, FiniteSetsExt

CONSTANT
  Circumstances   \* what may happen besides, by name (see Project)

VARIABLES
  command,    \* [name, force, base, include], or NoCommand
  loaded,     \* the config that the process has read, initialized
  chain,      \* [Contracts -> 1 .. 2]: the newest version of a contract
  tasks,      \* what the command has left to do
  failure     \* why the last command failed

codeVars == <<files, command, loaded, tasks, failure>>

Task(name, arg) == <<name, arg>>
Each(name, args) == SetToSeq({Task(name, a) : a \in args})

-----------------------------------------------------------------------------
(* The tasks.                                                               *)

(* What a path among the arguments of `init` asks for; `force` is then for  *)
(* the base alone (codegen/__init__.py:101-102).                            *)
Included == {"", "base", "types"}

ForcesTypes == IF command.include = "" THEN command.force
                                       ELSE command.include = "types"

Of(kind) == {c \in Contracts : KindOf[c] = kind}

(* _BaseCodeGenerator.init, up to generate_abis.                            *)
Opening == <<Task("skeleton", "")>> \o
           (IF command.base THEN <<Task("base", "")>> ELSE <<>>)

(* Mutant of Stubs: system hooks have no stubs.                             *)
StubsOfConfig ==
  Each("hook", loaded.hooks) \o Each("handler", Indexed(loaded) \cup {BatchHandler})

(* generate_hooks, generate_system_hooks, generate_handlers,                *)
(* generate_batch_handler: no handlers for templates that only a factory    *)
(* uses.                                                                    *)
Stubs ==
  Each("hook", loaded.hooks) \o Each("hook", {SystemHook}) \o
  Each("handler", Indexed(loaded) \cup {BatchHandler})

Generator(kind) ==
  Opening \o
  (IF kind = "tezos" THEN <<>> ELSE Each("abi", Indexed(loaded) \cap Of(kind))) \o
  <<Task("cleanup", kind)>> \o
  Each("schema", Of(kind)) \o Each("type", Of(kind)) \o
  (IF kind = "substrate" THEN Each("root", Indexed(loaded) \cap Of(kind)) ELSE <<>>)

(* DipDup.init.                                                             *)
Generation ==
  <<Task("load_abis", "")>> \o
  Opening \o <<Task("models", "")>> \o Stubs \o
  Generator("evm") \o Generator("starknet") \o
  Generator("substrate") \o Generator("tezos") \o
  <<Task("environments", "")>>

-----------------------------------------------------------------------------
(* What they do.                                                            *)

Current == Head(tasks)
NextIs(name) == tasks # <<>> /\ Current[1] = name
Arg == Current[2]

Done == tasks' = Tail(tasks) /\ UNCHANGED <<command, loaded, failure>>
Then(task) == tasks' = <<task>> \o Tail(tasks) /\ UNCHANGED <<command, loaded, failure>>

(* An error ends the command.                                               *)
Fails(reason) ==
  /\ failure' = reason /\ tasks' = <<>>
  /\ UNCHANGED <<files, command, loaded>>

LoadAbis ==
  /\ NextIs("load_abis")
  /\ IF AbisLoad THEN Done /\ UNCHANGED files ELSE Fails("empty ABI")

(* DipDupPackage.initialize.                                                *)
CreateSkeleton ==
  /\ NextIs("skeleton") /\ files' = Touched(Skeleton) /\ Done

(* render_base, of what `include` selects; replay.yaml is written with what *)
(* was read from it.                                                        *)
RenderBase ==
  /\ NextIs("base")
  /\ files' = IF command.include = "types" THEN files
              ELSE Written(Base, {"base"}, command.force)
  /\ Done

(* Mutant of TouchAbi: the ABI is fetched again.                            *)
TouchAbiAgain ==
  /\ NextIs("abi") /\ KindOf[Arg] # "substrate"
  /\ files' = [files EXCEPT ![Abi(Arg)] = {}] /\ Then(Task("abi_bytes", Arg))

(* _fetch_abi: the file is created, then written.                           *)
TouchAbi ==
  /\ NextIs("abi") /\ KindOf[Arg] # "substrate"
  /\ IF Exists(Abi(Arg))
     THEN Done /\ UNCHANGED files
     ELSE files' = Touched(Abi(Arg)) /\ Then(Task("abi_bytes", Arg))

WriteAbi ==
  /\ NextIs("abi_bytes")
  /\ files' = [files EXCEPT ![Abi(Arg)] = {Version[chain[Arg]]}] /\ Done

(* generate_abis of Substrate: the metadata of the versions, one after      *)
(* another from the oldest, to where all projects have it; those that are   *)
(* there are kept.                                                          *)
FetchMetadata ==
  /\ NextIs("abi") /\ KindOf[Arg] = "substrate"
  /\ LET found == IF Exists(Metadata(Arg)) THEN files[Metadata(Arg)] ELSE {}
         missing == {n \in 1 .. chain[Arg] : Version[n] \notin found}
     IN IF missing = {}
        THEN Done /\ UNCHANGED files
        ELSE /\ files' = [files EXCEPT ![Metadata(Arg)] = found \cup {Version[Min(missing)]}]
             /\ UNCHANGED <<command, loaded, tasks, failure>>

(* No datasource answers.                                                   *)
FetchFails ==
  /\ \/ NextIs("abi")
     \/ NextIs("schema") /\ KindOf[Arg] = "tezos" /\ Arg \in Indexed(loaded)
  /\ Fails("network")

(* Mutant of CleanUpSchemas: only types that are forced need it.            *)
CleanUpForced ==
  /\ NextIs("cleanup")
  /\ files' = IF ForcesTypes
              THEN [f \in Files |-> IF f[1] = "schemas" /\ f[2] \in Of(Arg)
                                    THEN NoFile ELSE files[f]]
              ELSE files
  /\ Done

(* _cleanup_schemas.                                                        *)
CleanUpSchemas ==
  /\ NextIs("cleanup")
  /\ files' = [f \in Files |-> IF f[1] = "schemas" /\ f[2] \in Of(Arg)
                               THEN NoFile ELSE files[f]]
  /\ Done

(* abi_to_jsonschemas: from the ABI in the package.                         *)
SchemaFromAbi ==
  /\ NextIs("schema") /\ KindOf[Arg] \in {"evm", "starknet"}
  /\ files' = IF Arg \in Indexed(loaded)
              THEN [files EXCEPT ![Schema(Arg, "only")] = files[Abi(Arg)]]
              ELSE files
  /\ Done

(* _get_schema and what writes it; the templates of factories too have it.  *)
SchemaFromTzkt ==
  /\ NextIs("schema") /\ KindOf[Arg] = "tezos"
  /\ files' = IF Arg \in Indexed(loaded) \cup Spawned(loaded)
              THEN Written(Schema(Arg, "only"), {Version[chain[Arg]]}, FALSE)
              ELSE files
  /\ Done

(* What a version of a runtime says of the event.                           *)
Layout(v) == IF "relayout" \in Circumstances THEN v ELSE "v1"

(* generate_schemas of Substrate: an event is no longer looked for once it  *)
(* is found, so that of several versions the first in the order of names is *)
(* taken, and copied to the package.                                        *)
SchemaFromMetadata ==
  /\ NextIs("schema") /\ KindOf[Arg] = "substrate"
  /\ files' = IF Arg \in Indexed(loaded)
              THEN [files EXCEPT ![Schema(Arg, "v1")] = {Layout("v1")},
                                 ![Abi(Arg)] = IF @ = NoFile THEN {"v1"} ELSE @]
              ELSE files
  /\ Done

(* _generate_type, for what has a schema.                                   *)
GenerateType ==
  /\ NextIs("type")
  /\ files' = [f \in Files |->
       IF /\ f[1] = "types" /\ f[2] = Arg /\ f[3] \in Slots(Arg)
          /\ Exists(Schema(Arg, f[3]))
          /\ files[f] = NoFile \/ ForcesTypes
       THEN files[Schema(Arg, f[3])] ELSE files[f]]
  /\ Done

(* _generate_types of Substrate: the union of the versions there are.       *)
GenerateRoot ==
  /\ NextIs("root")
  /\ files' = IF Typed(Arg) = {} THEN files
              ELSE [files EXCEPT ![Root(Arg)] = Typed(Arg)]
  /\ Done

(* _generate_models: when no file of the models says anything.              *)
GenerateModels ==
  /\ NextIs("models") /\ files' = Written(Models, {"stub"}, FALSE) /\ Done

(* Mutant of GenerateHook: a stub is written if there is no SQL directory.  *)
GenerateHookWithoutSql ==
  /\ NextIs("hook")
  /\ IF Exists(Sql(Arg))
     THEN Done /\ UNCHANGED files
     ELSE files' = Written(Hook(Arg), {"stub"}, TRUE) /\ Then(Task("sql", Arg))

(* _generate_callback for hooks: the stub, then the directory for its SQL.  *)
GenerateHook ==
  /\ NextIs("hook")
  /\ IF Exists(Hook(Arg))
     THEN Done /\ UNCHANGED files
     ELSE files' = Written(Hook(Arg), {"stub"}, FALSE) /\ Then(Task("sql", Arg))

TouchSql ==
  /\ NextIs("sql") /\ files' = Touched(Sql(Arg)) /\ Done

(* _generate_callback for handlers.                                         *)
GenerateHandler ==
  /\ NextIs("handler") /\ files' = Written(Handler(Arg), {"stub"}, FALSE) /\ Done

(* generate_environments: what was there is deleted.                        *)
GenerateEnvironments ==
  /\ NextIs("environments") /\ files' = [files EXCEPT ![Env] = {"env"}] /\ Done

Generate ==
  \/ LoadAbis \/ CreateSkeleton \/ RenderBase
  \/ TouchAbi \/ WriteAbi \/ FetchMetadata \/ FetchFails
  \/ CleanUpSchemas \/ SchemaFromAbi \/ SchemaFromTzkt \/ SchemaFromMetadata
  \/ GenerateType \/ GenerateRoot \/ GenerateModels
  \/ GenerateHook \/ TouchSql \/ GenerateHandler \/ GenerateEnvironments
=============================================================================
