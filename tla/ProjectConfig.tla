-------------------------- MODULE ProjectConfig --------------------------
(***************************************************************************)
(* The config of a project: what its user writes and what initialize()     *)
(* makes of it, once for the command line, again for `run`, and again when *)
(* contracts added at run time come from the database                      *)
(* (config/__init__.py:841-1123, cli.py:308 and 340, dipdup.py:392).       *)
(*                                                                         *)
(* An index is named after the contract it is about.                       *)
(***************************************************************************)
EXTENDS Naturals, FiniteSets

CONSTANTS
  Contracts,    \* contracts, runtimes included
  Hooks,        \* hooks that a config may have besides the system ones
  NoConfig      \* instead of a config

(* Where an index of a contract is: nowhere, in `indexes` in full or as a   *)
(* template with its values, or in `templates` alone, for a factory.        *)
Entries == {"none", "index", "template", "factory"}

(* `depth` is advanced.rollback_depth, {} when it is not set, `source` the  *)
(* rollback_depth of a TzKT datasource, 2 by default, and `buffered`        *)
(* whether it has a buffer_size.                                            *)
Configs ==
  [entries : [Contracts -> Entries], hooks : SUBSET Hooks,
   buffered : BOOLEAN, source : {0, 2}, depth : SUBSET {0, 2}]

(* _resolve_templates and _resolve_aliases: what is resolved already stays. *)
Resolved(config) ==
  [config EXCEPT !.entries =
     [c \in Contracts |-> IF @[c] = "template" THEN "index" ELSE @[c]]]

(* _validate, as far as it reads what it changes itself.                    *)
Refused(config) ==
  \/ config.buffered /\ config.depth \notin {{}, {0}}
  \/ \E d \in config.depth : config.source > d

Validated(config) ==
  [config EXCEPT !.depth = {d \in {config.source} \cup @ :
                              \A e \in {config.source} \cup @ : e <= d}]

(* initialize(); a config that _validate refuses is not used.               *)
Initialized(config) == Validated(Resolved(config))

(* add_index and the index that a config written in full has.               *)
Added(config, c) == Resolved([config EXCEPT !.entries[c] = "template"])

(* The contracts whose indexes the code sees.                               *)
Indexed(config) == {c \in Contracts : config.entries[c] = "index"}
Spawned(config) == {c \in Contracts : config.entries[c] = "factory"}
=============================================================================
