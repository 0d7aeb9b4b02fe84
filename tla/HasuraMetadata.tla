------------------------- MODULE HasuraMetadata -------------------------
(***************************************************************************)
(* The metadata of a Hasura instance and the steps by which HasuraGateway  *)
(* configures it (hasura.py:134-207): the tables of the project and their  *)
(* relations, the names of tables and columns, the queries and REST        *)
(* endpoints, and the project's own requests.  Every step is a request     *)
(* after which the process may stop; the hash of the result is saved last. *)
(***************************************************************************)
EXTENDS DatabaseSchema

VARIABLE metadata   \* what Hasura would export

(* A section of the metadata is of the version it was generated from.       *)
Sections == {"tables", "names", "queries", "custom"}
Metadatas ==
  [source : BOOLEAN, sections : [Sections -> (Versions \X Versions) \cup {NoHash}],
   foreign : 0 .. 1]

ASSUME MetadataAssumption == NoHash \notin (Versions \X Versions) \cup Metadatas

(* An instance that was never configured has no source; `foreign` counts    *)
(* what others have changed in it.                                          *)
Unconfigured ==
  [source |-> FALSE, sections |-> [s \in Sections |-> NoHash], foreign |-> 0]

MetadataInit == metadata = Unconfigured

(* What the models and the `hasura` section of the config amount to.        *)
Generated == <<version[Models], version[HasuraPart]>>

(* Mutant of UpToDate: any hash will do.                                    *)
WasConfigured == db.hasura # NoHash

(* The metadata is what it was when its hash was saved: there is nothing to *)
(* do (hasura.py:148-150).                                                  *)
UpToDate == db.hasura = metadata

(* pg_add_source, if the source is missing; that `create_source` allows it  *)
(* is assumed (hasura.py:155-164).                                          *)
SourceCreated == [metadata EXCEPT !.source = TRUE]

(* replace_metadata with the tables of the models, without the queries      *)
(* whose names may be outdated and without customization                    *)
(* (hasura.py:166-172).  What others have added to the source goes.         *)
TablesReplaced ==
  [metadata EXCEPT !.sections = [s \in Sections |->
                     IF s = "tables" THEN Generated ELSE NoHash],
                   !.foreign = 0]

(* The bulk of pg_set_table_customization, the queries with the REST        *)
(* endpoints that are made of the names it gave, and the project's          *)
(* `hasura/*.json` requests (hasura.py:175-198).                            *)
SectionAdded(s) == [metadata EXCEPT !.sections[s] = Generated]

(* All of it was generated from the project as it is, and nothing else is   *)
(* there.                                                                   *)
Complete ==
  metadata = [source |-> TRUE, sections |-> [s \in Sections |-> Generated], foreign |-> 0]
=============================================================================
