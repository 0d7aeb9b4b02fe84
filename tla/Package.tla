----------------------------- MODULE Package -----------------------------
(***************************************************************************)
(* The files of a project: its package, and the directories that are       *)
(* shared by all projects of a user (package.py:52-219).                   *)
(*                                                                         *)
(* What a file says is a set: the version of the contract a type was made  *)
(* for, "stub" for a callback nobody has filled in, "edited" for what the  *)
(* user wrote.  The set is empty when the file is.                         *)
(***************************************************************************)
EXTENDS ProjectConfig

CONSTANTS
  KindOf,     \* [Contracts -> Kinds]
  NoFile      \* what a file that does not exist says

Kinds == {"evm", "starknet", "tezos", "substrate"}

ASSUME KindsAssumption == KindOf \in [Contracts -> Kinds]

(* The versions a contract goes through.                                    *)
Version == <<"v1", "v2">>
Upto(n) == {Version[i] : i \in 1 .. n}

(* One typeclass for a contract, or one for each version of a runtime.      *)
Slots(c) == IF KindOf[c] = "substrate" THEN Upto(2) ELSE {"only"}

SystemHook == "on_restart"
BatchHandler == "batch"

Abi(c) == <<"abi", c, "">>           \* package.abi
Metadata(c) == <<"metadata", c, "">> \* package.abi_local
Schema(c, s) == <<"schemas", c, s>>  \* package.schemas
Type(c, s) == <<"types", c, s>>
Root(c) == <<"types", c, "init">>    \* what imports the types of a runtime
Handler(h) == <<"handlers", h, "">>
Hook(h) == <<"hooks", h, "">>
Sql(h) == <<"sql", h, "">>
Models == <<"models", "", "">>
Base == <<"base", "", "">>           \* pyproject.toml, Makefile, deploy
Env == <<"deploy", "", "">>          \* deploy/*.env.default
Skeleton == <<"skeleton", "", "">>   \* .keep markers

Files ==
  {Abi(c) : c \in Contracts} \cup {Metadata(c) : c \in Contracts}
  \cup UNION {{Schema(c, s), Type(c, s)} : <<c, s>> \in
                UNION {{c} \X Slots(c) : c \in Contracts}}
  \cup {Root(c) : c \in Contracts}
  \cup {Handler(h) : h \in Contracts \cup {BatchHandler}}
  \cup {Hook(h) : h \in Hooks \cup {SystemHook}}
  \cup {Sql(h) : h \in Hooks \cup {SystemHook}}
  \cup {Models, Base, Env, Skeleton}

VARIABLE files

Exists(f) == files[f] # NoFile

(* touch and write (utils.py:47-72).                                        *)
Touched(f) == IF Exists(f) THEN files ELSE [files EXCEPT ![f] = {}]

Written(f, text, overwrite) ==
  IF Exists(f) /\ ~overwrite THEN files ELSE [files EXCEPT ![f] = text]

(* load_abis: a file that is empty is not JSON.                             *)
AbisLoad ==
  \A c \in Contracts : KindOf[c] \in {"evm", "starknet"} => files[Abi(c)] # {}

Typed(c) == {s \in Slots(c) : Exists(Type(c, s))}

Edited(f) == files[f] = {"edited"}

(* What the root of a runtime's types imports; a user who edits it knows.   *)
Imported(c) == IF Edited(Root(c)) THEN Typed(c) ELSE files[Root(c)]

(* get_type, at the latest with the first data for a handler.               *)
TypesImport(c) ==
  IF KindOf[c] = "substrate"
  THEN Exists(Root(c)) /\ Imported(c) # {} /\ Imported(c) \subseteq Typed(c)
  ELSE Typed(c) = Slots(c)

(* A stub runs the SQL scripts in its directory.                            *)
HookRuns(h) == Exists(Hook(h)) /\ (files[Hook(h)] = {"stub"} => Exists(Sql(h)))

(* What stops an indexer with this config: verify, load_abis, get_callback, *)
(* get_type, _get_sql_path.                                                 *)
Missing(config) ==
  \/ ~AbisLoad
  \/ \E h \in Indexed(config) \cup {BatchHandler} : ~Exists(Handler(h))
  \/ \E c \in Indexed(config) : ~TypesImport(c)
  \/ \E c \in Indexed(config) : KindOf[c] \in {"evm", "starknet"} /\ ~Exists(Abi(c))
  \/ \E h \in config.hooks \cup {SystemHook} : ~HookRuns(h)
=============================================================================
