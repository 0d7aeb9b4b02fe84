-------------------------- MODULE Startup_proofs --------------------------
(***************************************************************************)
(* Theorems about Startup, for every value of its constants: any indexes   *)
(* and policies, any number of edits, commands and stops.  Each rules out  *)
(* only the circumstances that break its property.                         *)
(***************************************************************************)
EXTENDS Startup, TLAPS

(* The steps by what they are about.                                        *)
HasuraSteps == {"source", "tables", "names", "queries", "custom", "save_hash", "configured"}
Requests == {"asked_by_hook", "asked_by_handler", "too_deep"}
Running == {"running"} \cup Requests
SpawnedSteps == {"contracts", "load", "templates"} \cup Running
IndexSteps == {"spawn"} \cup SpawnedSteps

(* The steps of a run once dipdup_schema has been looked at.                *)
Checked == {"restart", "migrations", "datasources", "hasura"} \cup HasuraSteps \cup IndexSteps
AllSteps == {"down", "generate", "schema", "save_schema"} \cup Checked

DatabaseRows ==
  [tables : Hashes, schema : SchemaRows \cup {NoRow}, index : [Indexes -> IndexRows \cup {NoRow}],
   head : 0 .. 1 \cup {NoHash}, hasura : Metadatas \cup {NoHash},
   prepared : BOOLEAN, immune : BOOLEAN, migrated : Hashes, contract : BOOLEAN]

TypeInv ==
  /\ policy \in Policies
  /\ version \in [Parts -> Hashes] /\ \A p \in Parts \ Templated : version[p] \in Versions
  /\ chain \in 0 .. 1 /\ db \in DatabaseRows
  /\ metadata \in Metadatas /\ migrations \in Hashes
  /\ pc \in AllSteps /\ command \in {"run", "init", "configure"}
  /\ known \in SchemaRows \cup {NoRow}
  /\ inventory \subseteq {Contract} \cup Templated
  /\ state \in [Indexes -> IndexRows \cup {NoRow}]
  /\ demanded \in BOOLEAN /\ approved \in BOOLEAN
  /\ since \in [Parts -> Hashes]

(* Once they are spawned, what is configured has rows.                      *)
RowsFit == pc \in SpawnedSteps => \A i \in Configured : db.index[i] # NoRow

Ignores(reason) == Action(reason) = "ignore"

(* Which command is at which step, what it has read and what it has made    *)
(* sure of.                                                                 *)
StepsFit ==
  /\ command = "configure" => pc \in {"down"} \cup HasuraSteps
  /\ command = "init" => pc \in {"down", "generate", "schema", "save_schema", "restart", "migrations"}
  /\ pc \in {"generate", "schema"} =>
       IF known = NoRow THEN db.schema = NoRow
       ELSE db.schema = known
            \/ (Ignores("schema_modified") /\ db.schema = [known EXCEPT !.hash = NoHash])
  /\ pc = "generate" => known = db.schema
  /\ pc = "save_schema" => db.schema = NoRow /\ db.prepared
  /\ pc \notin {"down", "generate"} => db.tables # NoHash
  /\ pc \in Checked /\ command # "configure" => db.schema # NoRow

(* The row of dipdup_schema is the last of what makes a database.  Only a   *)
(* reason that raises is kept in it.                                        *)
SchemaFits ==
  db.schema # NoRow =>
    /\ db.prepared /\ db.tables # NoHash
    /\ db.schema.reindex # NoReason => Action(db.schema.reindex) = "exception"

(* Past the checks its hash is that of the models, unless changes of them   *)
(* are ignored or no change of them is.                                     *)
HashChecked ==
  pc \in Checked /\ command # "configure" /\ ~Ignores("schema_modified")
       => db.schema.hash = version[Models]

(* What holds of every start, if one without the row of dipdup_schema does  *)
(* not go on.                                                               *)
Base ==
  /\ "unsaved_row" \notin Circumstances
  /\ TypeInv /\ RowsFit /\ StepsFit /\ SchemaFits /\ HashChecked

(* For PreparedFirst: the tables are those of the models or those that the  *)
(* hash is of.                                                              *)
TablesFit ==
  ~Ignores("schema_modified") =>
    IF db.schema = NoRow THEN db.tables \in {NoHash, version[Models]}
    ELSE db.tables \in {version[Models], db.schema.hash}

(* For RefusesUntilSettled: a hash that was reset comes with tables that    *)
(* fit; where changes of models are ignored there are none; and while the   *)
(* user is asked for, the row says why, and only commands get anywhere.     *)
ResetFits ==
  ~Ignores("schema_modified") /\ db.schema # NoRow /\ db.schema.hash = NoHash =>
    db.tables = version[Models]
NeverEdited ==
  Raises /\ Ignores("schema_modified") =>
    /\ version[Models] = 0 /\ db.tables \in {NoHash, 0} /\ migrations \in {NoHash, 0}
    /\ db.schema # NoRow => db.schema.hash \in {NoHash, 0}
DemandFits ==
  /\ pc = "asked_by_handler" => Action("manual") # "exception"
  /\ Raises /\ pc \in Checked /\ command # "configure" => db.schema.hash = version[Models]
  /\ Raises /\ pc = "schema" => known = db.schema
  /\ demanded =>
       /\ db.schema # NoRow /\ db.schema.reindex # NoReason /\ db.schema.hash # NoHash
       /\ pc \in {"down", "generate", "schema"} \cup HasuraSteps
       /\ pc \in HasuraSteps => command = "configure"

(* For ApprovalHolds: nothing that a start looks at differs from what was   *)
(* approved.                                                                *)
ApprovalFits ==
  approved =>
    /\ ~demanded /\ pc \notin Requests
    /\ db.tables = version[Models] /\ db.schema # NoRow
    /\ db.schema.hash \in {NoHash, version[Models]} /\ db.schema.reindex = NoReason
    /\ pc = "schema" => known = db.schema
    /\ db.head \in {NoHash, chain}
    /\ \A i \in Configured : db.index[i] # NoRow => db.index[i].hash \in {NoHash, version[i]}
    /\ \A i \in AddedBefore : InTemplates(i)

(* For OneDefinition: what rows were built from is what the hash is of, or  *)
(* what it will be of once it is computed; the hash of a templated index is *)
(* not compared, so that there it is what the template is.                  *)
SinceModels ==
  ~Ignores("schema_modified") /\ since[Models] # NoHash =>
    db.schema # NoRow /\ db.schema.hash = since[Models]
SinceIndex(i) ==
  since[i] # NoHash =>
    /\ db.index[i] # NoRow
    /\ IF i \in Templated THEN version[i] \in {since[i], NoHash}
       ELSE IF db.index[i].hash = NoHash THEN since[i] = version[i]
       ELSE since[i] = db.index[i].hash

(* The rows that are held in memory, by which ProcessLevel goes, are those  *)
(* that LoadIndexState has compared.                                        *)
StateFits(i) ==
  /\ state[i] # NoRow => pc # "down" /\ db.index[i] # NoRow
  /\ i \in Configured /\ pc \in {"contracts", "load"} => state[i] = db.index[i]
  /\ i \in Configured /\ pc \in {"templates"} \cup Running =>
       /\ state[i] # NoRow /\ state[i].hash \in {NoHash, version[i]}
       /\ db.index[i].hash \in {NoHash, version[i]}
  /\ i \in Templated /\ pc \in Running /\ db.index[i] # NoRow => version[i] # NoHash
SinceFits ==
  /\ SinceModels
  /\ ~Ignores("config_modified") => \A i \in Indexes : SinceIndex(i) /\ StateFits(i)

(* For HasuraConfigured: a saved hash is of metadata that was complete for  *)
(* the models that were accepted, and no section is of other models; each   *)
(* step finds what those before it have done.                               *)
Section(m) == <<m, version[HasuraPart]>>
CompleteOf(m) ==
  [source |-> TRUE, sections |-> [s \in Sections |-> Section(m)], foreign |-> 0]
AcceptedModels ==
  IF Ignores("schema_modified") \/ db.schema.hash = NoHash THEN version[Models] ELSE db.schema.hash
HasuraFits ==
  /\ command = "configure" => Accepted
  /\ command = "configure" /\ pc \in HasuraSteps => db.schema # NoRow
  /\ db.hasura # NoHash =>
       /\ db.schema # NoRow
       /\ db.hasura = CompleteOf(AcceptedModels)
       /\ \A s \in Sections : metadata.sections[s] \in {NoHash, Section(AcceptedModels)}
Progress ==
  /\ pc \in HasuraSteps \ {"source", "configured"} => metadata.source
  /\ pc \in {"names", "queries", "custom"} =>
       metadata.foreign = 0 /\ metadata.sections["tables"] = Generated
  /\ pc \in {"queries", "custom"} => metadata.sections["names"] = Generated
  /\ pc = "custom" => metadata.sections["queries"] = Generated
  /\ pc = "save_hash" => Complete
  /\ pc \in IndexSteps \cup {"configured"} /\ HasHasura => Complete

-----------------------------------------------------------------------------
(* The database after each of the operations on it, field by field.         *)

LEMMA Rows ==
  ASSUME TypeInv
  PROVE  /\ db.tables \in Hashes /\ db.schema \in SchemaRows \cup {NoRow}
         /\ db.index \in [Indexes -> IndexRows \cup {NoRow}]
         /\ db.head \in 0 .. 1 \cup {NoHash} /\ db.hasura \in Metadatas \cup {NoHash}
         /\ db.prepared \in BOOLEAN /\ db.immune \in BOOLEAN
         /\ db.migrated \in Hashes /\ db.contract \in BOOLEAN
         /\ policy \in [Reasons -> ReindexingActions]
         /\ NoHash \notin Versions /\ NoRow \notin SchemaRows /\ NoRow \notin IndexRows
  BY PoliciesAssumption, NamesAssumption DEF TypeInv, DatabaseRows

ResetOf(row) == IF row = NoRow THEN NoRow ELSE [row EXCEPT !.hash = NoHash]

LEMMA ResetRow ==
  ASSUME NEW row \in IndexRows \cup {NoRow}
  PROVE  /\ ResetOf(row) \in IndexRows \cup {NoRow}
         /\ ResetOf(row) = NoRow <=> row = NoRow
         /\ row # NoRow => ResetOf(row).hash = NoHash /\ ResetOf(row).level = row.level
  BY NamesAssumption DEF ResetOf, IndexRows, Hashes

LEMMA ResetSchema ==
  ASSUME NEW row \in SchemaRows
  PROVE  /\ [row EXCEPT !.hash = NoHash] \in SchemaRows
         /\ [row EXCEPT !.hash = NoHash].hash = NoHash
         /\ [row EXCEPT !.hash = NoHash].reindex = row.reindex
  BY NamesAssumption DEF SchemaRows, Hashes

LEMMA HashedRow ==
  ASSUME NEW row \in IndexRows, NEW hash \in Hashes
  PROVE  /\ [row EXCEPT !.hash = hash] \in IndexRows /\ [row EXCEPT !.hash = hash] # NoRow
         /\ [row EXCEPT !.hash = hash].hash = hash
  BY NamesAssumption DEF IndexRows

Ignoring(d, reason) ==
  /\ d \in DatabaseRows
  /\ d.schema = IF reason = "schema_modified" /\ db.schema # NoRow
                THEN [db.schema EXCEPT !.hash = NoHash] ELSE db.schema
  /\ d.index = IF reason = "config_modified" THEN [i \in Indexes |-> ResetOf(db.index[i])]
          ELSE db.index
  /\ d.head = IF reason = "rollback" THEN NoHash ELSE db.head
  /\ d.tables = db.tables /\ d.hasura = db.hasura /\ d.prepared = db.prepared
  /\ d.contract = db.contract /\ d.migrated = db.migrated

LEMMA IgnoredDatabase ==
  ASSUME TypeInv, NEW reason \in Reasons
  PROVE  Ignoring(Ignored(reason), reason)
<1> db \in DatabaseRows
  BY DEF TypeInv
<1>1. CASE reason = "schema_modified" /\ db.schema # NoRow
  <2> Ignored(reason) = [db EXCEPT !.schema.hash = NoHash]
    BY <1>1 DEF Ignored
  <2> db.schema \in SchemaRows
    BY <1>1, Rows
  <2> QED
    BY <1>1, Rows, ResetSchema DEF DatabaseRows, Ignoring
<1>2. CASE reason = "config_modified"
  <2> Ignored(reason) = [db EXCEPT !.index = [i \in Indexes |-> ResetOf(db.index[i])]]
    BY <1>2 DEF Ignored, ResetOf
  <2> [i \in Indexes |-> ResetOf(db.index[i])] \in [Indexes -> IndexRows \cup {NoRow}]
    BY ResetRow, Rows
  <2> QED
    BY <1>2, Rows DEF DatabaseRows, Ignoring
<1>3. CASE reason = "rollback"
  <2> Ignored(reason) = [db EXCEPT !.head = NoHash]
    BY <1>3 DEF Ignored
  <2> QED
    BY <1>3, Rows DEF DatabaseRows, Ignoring
<1>4. CASE reason = "manual" \/ (reason = "schema_modified" /\ db.schema = NoRow)
  <2> Ignored(reason) = db
    BY <1>4 DEF Ignored
  <2> QED
    BY <1>4, Rows DEF DatabaseRows, Ignoring
<1> QED
  BY <1>1, <1>2, <1>3, <1>4 DEF Reasons

Flagging(d, reason) ==
  /\ d \in DatabaseRows
  /\ d.schema = IF db.schema.reindex = NoReason THEN [db.schema EXCEPT !.reindex = reason]
          ELSE db.schema
  /\ d.tables = db.tables /\ d.index = db.index /\ d.head = db.head /\ d.hasura = db.hasura
  /\ d.prepared = db.prepared /\ d.contract = db.contract /\ d.migrated = db.migrated

LEMMA FlaggedSchema ==
  ASSUME NEW row \in SchemaRows, NEW reason \in Reasons
  PROVE  /\ [row EXCEPT !.reindex = reason] \in SchemaRows
         /\ [row EXCEPT !.reindex = reason].hash = row.hash
         /\ [row EXCEPT !.reindex = reason].reindex = reason
  BY DEF SchemaRows

LEMMA FlaggedDatabase ==
  ASSUME TypeInv, db.schema # NoRow, NEW reason \in Reasons
  PROVE  Flagging(Flagged(reason), reason)
<1>1. /\ db \in DatabaseRows /\ db.schema \in SchemaRows
      /\ [db.schema EXCEPT !.reindex = reason] \in SchemaRows
  BY Rows, FlaggedSchema DEF TypeInv
<1>2. CASE db.schema.reindex = NoReason
  <2> Flagged(reason) = [db EXCEPT !.schema.reindex = reason]
    BY <1>2 DEF Flagged
  <2> QED
    BY <1>1, <1>2 DEF DatabaseRows, Flagging
<1>3. CASE db.schema.reindex # NoReason
  BY <1>1, <1>3 DEF Flagged, Flagging
<1> QED
  BY <1>2, <1>3

Approving(d, e) ==
  /\ e \in DatabaseRows
  /\ e.schema = [hash |-> NoHash, reindex |-> NoReason]
  /\ e.index = [i \in Indexes |-> ResetOf(d.index[i])]
  /\ e.tables = d.tables /\ e.head = d.head /\ e.hasura = d.hasura
  /\ e.prepared = d.prepared /\ e.contract = d.contract /\ e.migrated = d.migrated

LEMMA ApprovedDatabase ==
  ASSUME NEW d \in DatabaseRows
  PROVE  Approving(d, Approved(d))
<1>1. Approved(d) = [d EXCEPT !.schema = [hash |-> NoHash, reindex |-> NoReason],
                              !.index = [i \in Indexes |-> ResetOf(d.index[i])]]
  BY DEF Approved, ResetOf
<1>2. [i \in Indexes |-> ResetOf(d.index[i])] \in [Indexes -> IndexRows \cup {NoRow}]
  BY ResetRow DEF DatabaseRows
<1>3. [hash |-> NoHash, reindex |-> NoReason] \in SchemaRows
  BY DEF SchemaRows, Hashes
<1> QED
  BY <1>1, <1>2, <1>3 DEF DatabaseRows, Approving

(* Wiped, with or without what is immune.                                   *)
Wiping(d) ==
  /\ d \in DatabaseRows
  /\ d.tables = NoHash /\ d.schema = NoRow /\ d.index = [i \in Indexes |-> NoRow]
  /\ d.head = NoHash /\ d.hasura = NoHash /\ ~d.prepared /\ ~d.contract

LEMMA WipedDatabase ==
  ASSUME TypeInv
  PROVE  /\ Wiping(Empty) /\ Wiping(Wiped)
         /\ database # "sqlite" => Wiping(WipedByReindex)
         /\ database = "sqlite" => WipedByReindex = db
         /\ \A withImmune \in BOOLEAN : Wiping(WipedByCommand(withImmune))
<1>1. Wiping(Empty)
  BY DEF Empty, Wiping, DatabaseRows, Hashes
<1>2. Wiping(Wiped) /\ Wiping([Wiped EXCEPT !.migrated = db.migrated])
  BY Rows DEF Empty, Wiped, Wiping, DatabaseRows, Hashes
<1> QED
  BY <1>1, <1>2 DEF WipedByReindex, WipedByCommand

-----------------------------------------------------------------------------
(* What DipDupContext.reindex may do: go on with checksums reset, stop with *)
(* the reason kept or not, or stop with the database wiped or not.          *)
GoesOn(reason, next) ==
  /\ Action(reason) = "ignore" /\ Ignoring(db', reason) /\ pc' = next
  /\ UNCHANGED <<known, inventory, state, demanded, since, migrations>>

Stopped ==
  pc' = "down" /\ known' = NoRow /\ inventory' = {} /\ state' = [i \in Indexes |-> NoRow]

Raised(reason, inHandler) ==
  /\ Action(reason) = "exception" /\ Stopped
  /\ \/ (inHandler \/ db.schema = NoRow) /\ db' = db
     \/ ~inHandler /\ db.schema # NoRow /\ Flagging(db', reason)
  /\ demanded' = (demanded \/ db.schema # NoRow)
  /\ UNCHANGED <<since, migrations>>

WipedAll(reason, inHandler) ==
  /\ Action(reason) = "wipe" /\ Stopped /\ migrations' = NoHash
  /\ \/ UNCHANGED <<db, since, demanded>>
     \/ ~inHandler /\ Wiping(db') /\ since' = [p \in Parts |-> NoHash] /\ demanded' = FALSE

LEMMA ReindexedDoes ==
  ASSUME TypeInv, NEW reason \in Reasons, NEW next, NEW inHandler \in BOOLEAN,
         Reindexed(reason, next, inHandler)
  PROVE  /\ GoesOn(reason, next) \/ Raised(reason, inHandler) \/ WipedAll(reason, inHandler)
         /\ UNCHANGED <<policy, database, version, chain, metadata, command, approved>>
<1>1. UNCHANGED <<policy, database, version, chain, metadata, command, approved>>
  BY DEF Reindexed, project
<1>2. CASE Action(reason) = "ignore"
  <2>1. /\ db' = Ignored(reason) /\ pc' = next
        /\ UNCHANGED <<known, inventory, state, demanded, since, migrations>>
    BY <1>2, Zenon DEF Reindexed, Goto, inventoryVars
  <2> QED
    BY <1>1, <1>2, <2>1, IgnoredDatabase DEF GoesOn
<1>3. CASE Action(reason) = "exception"
  <2>1. /\ db' = IF inHandler \/ db.schema = NoRow THEN db ELSE Flagged(reason)
        /\ demanded' = (demanded \/ db.schema # NoRow)
        /\ Stopped /\ UNCHANGED <<since, migrations>>
    BY <1>3, Zenon DEF Reindexed, Stopped, Down
  <2> QED
    BY <1>1, <1>3, <2>1, FlaggedDatabase DEF Raised
<1>4. CASE Action(reason) = "wipe"
  <2> DEFINE wiped == ~inHandler /\ database # "sqlite"
  <2>1. /\ db' = IF inHandler THEN db ELSE WipedByReindex
        /\ since' = IF wiped THEN Nothing ELSE since
        /\ demanded' = (demanded /\ ~wiped)
        /\ Stopped /\ migrations' = NoHash
    BY <1>4, Zenon DEF Reindexed, Stopped, Down, MigrationsWiped
  <2>2. demanded \in BOOLEAN
    BY DEF TypeInv
  <2>3. CASE wiped
    BY <1>1, <1>4, <2>1, <2>3, WipedDatabase DEF WipedAll, Nothing
  <2>4. CASE ~wiped
    BY <1>1, <1>4, <2>1, <2>2, <2>4, WipedDatabase DEF WipedAll
  <2> QED
    BY <2>3, <2>4
<1>5. Action(reason) \in ReindexingActions
  BY Rows DEF Action
<1> QED
  BY <1>1, <1>2, <1>3, <1>4, <1>5 DEF ReindexingActions

LEMMA ReindexDoes ==
  ASSUME TypeInv, NEW reason \in Reasons, NEW next, NEW inHandler \in BOOLEAN,
         Reindex(reason, next, inHandler)
  PROVE  /\ GoesOn(reason, next) \/ Raised(reason, inHandler) \/ WipedAll(reason, inHandler)
         /\ UNCHANGED <<policy, database, version, chain, metadata, command, approved>>
BY ReindexedDoes DEF Reindex

-----------------------------------------------------------------------------
(* Types.                                                                   *)

LEMMA TypeInit == Init => TypeInv
<1> SUFFICES ASSUME Init PROVE TypeInv
  OBVIOUS
<1>1. db = Empty /\ version = [p \in Parts |-> 0] /\ chain = 0 /\ policy \in Policies
  BY DEF Init, DatabaseInit
<1>2. Empty \in DatabaseRows
  BY DEF Empty, DatabaseRows, Hashes
<1>3. metadata \in Metadatas
  BY DEF Init, MetadataInit, Unconfigured, Metadatas, Versions
<1>4. 0 \in Versions /\ 0 \in 0 .. 1 /\ Versions \subseteq Hashes /\ NoHash \in Hashes
  BY DEF Versions, Hashes
<1> QED
  BY <1>1, <1>2, <1>3, <1>4 DEF Init, MigrationsInit, TypeInv, Nothing, AllSteps

LEMMA ReindexedType ==
  ASSUME TypeInv, NEW reason \in Reasons, NEW next \in AllSteps, NEW inHandler \in BOOLEAN,
         Reindexed(reason, next, inHandler)
  PROVE  TypeInv'
<1>1. /\ GoesOn(reason, next) \/ Raised(reason, inHandler) \/ WipedAll(reason, inHandler)
      /\ UNCHANGED <<policy, database, version, chain, metadata, command, approved>>
  BY ReindexedDoes
<1>2. CASE GoesOn(reason, next)
  BY <1>1, <1>2 DEF GoesOn, Ignoring, TypeInv
<1>3. CASE Raised(reason, inHandler)
  BY <1>1, <1>3 DEF Raised, Stopped, Flagging, TypeInv, AllSteps
<1>4. CASE WipedAll(reason, inHandler)
  <2>1. db' \in DatabaseRows /\ since' \in [Parts -> Hashes] /\ demanded' \in BOOLEAN
    BY <1>4 DEF WipedAll, Wiping, TypeInv, Hashes
  <2>2. state' \in [Indexes -> IndexRows \cup {NoRow}]
    BY <1>4 DEF WipedAll, Stopped
  <2> QED
    BY <1>1, <1>4, <2>1, <2>2 DEF WipedAll, Stopped, TypeInv, AllSteps, Hashes
<1> QED
  BY <1>1, <1>2, <1>3, <1>4

LEMMA ReindexType ==
  ASSUME TypeInv, NEW reason \in Reasons, NEW next \in AllSteps, NEW inHandler \in BOOLEAN,
         Reindex(reason, next, inHandler)
  PROVE  TypeInv'
BY ReindexedType DEF Reindex

LEMMA RowOfType ==
  ASSUME TypeInv, NEW i \in Indexes
  PROVE  RowOf(i) \in IndexRows /\ RowOf(i) # NoRow
         /\ (version[i] # NoHash \/ i \notin Templated => NewRow(i).hash = version[i])
  BY NamesAssumption DEF TypeInv, DatabaseRows, RowOf, NewRow, IndexRows, Parts

LEMMA DatabaseWith ==
  ASSUME TypeInv
  PROVE  /\ \A h \in Hashes : [db EXCEPT !.tables = h] \in DatabaseRows
         /\ \A h \in Hashes : [db EXCEPT !.migrated = h] \in DatabaseRows
         /\ \A h \in Hashes : [db EXCEPT !.tables = h, !.migrated = h] \in DatabaseRows
         /\ \A h \in Hashes : [db EXCEPT !.tables = h, !.immune = TRUE] \in DatabaseRows
         /\ [db EXCEPT !.prepared = TRUE] \in DatabaseRows
         /\ \A row \in SchemaRows : [db EXCEPT !.schema = row] \in DatabaseRows
         /\ [db EXCEPT !.hasura = metadata] \in DatabaseRows
         /\ \A h \in 0 .. 1 \cup {NoHash} : [db EXCEPT !.head = h] \in DatabaseRows
         /\ \A index \in [Indexes -> IndexRows \cup {NoRow}] :
              [db EXCEPT !.index = index] \in DatabaseRows
         /\ \A index \in [Indexes -> IndexRows \cup {NoRow}], b \in BOOLEAN :
              [db EXCEPT !.contract = b, !.index = index] \in DatabaseRows
         /\ [db EXCEPT !.head = NoHash, !.hasura = NoHash] \in DatabaseRows
  BY DEF TypeInv, DatabaseRows

LEMMA MetadataWith ==
  ASSUME TypeInv
  PROVE  /\ SourceCreated \in Metadatas /\ TablesReplaced \in Metadatas
         /\ \A s \in Sections : SectionAdded(s) \in Metadatas
         /\ Unconfigured \in Metadatas /\ [metadata EXCEPT !.foreign = 1] \in Metadatas
         /\ Generated \in Versions \X Versions
<1>1. Generated \in Versions \X Versions
  BY NamesAssumption, FactoryAssumption DEF TypeInv, Generated, Parts
<1>2. /\ metadata \in Metadatas /\ metadata.source \in BOOLEAN /\ metadata.foreign \in 0 .. 1
      /\ metadata.sections \in [Sections -> (Versions \X Versions) \cup {NoHash}]
  BY DEF TypeInv, Metadatas
<1>3. ASSUME NEW s \in Sections PROVE SectionAdded(s) \in Metadatas
  <2> [metadata.sections EXCEPT ![s] = Generated] \in [Sections -> (Versions \X Versions) \cup {NoHash}]
    BY <1>1, <1>2
  <2> QED
    BY <1>2 DEF SectionAdded, Metadatas
<1>4. TablesReplaced \in Metadatas
  <2> DEFINE f == [s \in Sections |-> IF s = "tables" THEN Generated ELSE NoHash]
  <2>1. f \in [Sections -> (Versions \X Versions) \cup {NoHash}]
    BY <1>1
  <2>2. TablesReplaced = [metadata EXCEPT !.sections = f, !.foreign = 0]
    BY DEF TablesReplaced
  <2> HIDE DEF f
  <2>3. [metadata EXCEPT !.sections = f] \in Metadatas /\ 0 \in 0 .. 1
    BY <1>2, <2>1 DEF Metadatas
  <2> QED
    BY <2>2, <2>3 DEF Metadatas
<1>5. SourceCreated \in Metadatas
  BY <1>2 DEF SourceCreated, Metadatas
<1>6. Unconfigured \in Metadatas
  BY DEF Unconfigured, Metadatas
<1>7. [metadata EXCEPT !.foreign = 1] \in Metadatas
  BY <1>2 DEF Metadatas
<1> QED
  BY <1>1, <1>3, <1>4, <1>5, <1>6, <1>7

(* A stopped process leaves nothing behind that has no type.                *)
LEMMA DownType ==
  ASSUME TypeInv, Down
  PROVE  /\ pc' \in AllSteps /\ known' \in SchemaRows \cup {NoRow}
         /\ inventory' \subseteq {Contract} \cup Templated
         /\ state' \in [Indexes -> IndexRows \cup {NoRow}]
  BY DEF Down, AllSteps

LEMMA ApproveType ==
  ASSUME TypeInv, NEW d \in DatabaseRows, Approve(d)
  PROVE  TypeInv'
<1>1. db' \in DatabaseRows
  BY ApprovedDatabase DEF Approve, Approving
<1>2. since' \in [Parts -> Hashes] /\ approved' \in BOOLEAN /\ demanded' \in BOOLEAN
  BY DEF Approve, Nothing, Hashes
<1> QED
  BY <1>1, <1>2 DEF Approve, TypeInv, project, processVars, inventoryVars

LEMMA RunType ==
  ASSUME TypeInv, RowsFit, Run
  PROVE  TypeInv'
<1> USE DEF databaseVars, project, inventoryVars, budgets, history, Goto
<1>0. /\ db \in DatabaseRows /\ version[Models] \in Versions /\ version[Models] \in Hashes
      /\ \A s \in Checked : s \in AllSteps
  BY NamesAssumption, FactoryAssumption DEF TypeInv, Parts, AllSteps, Hashes
<1>1. CASE ReadSchema
  BY <1>1, Rows DEF ReadSchema, TypeInv, AllSteps
<1>2. CASE GenerateSchema
  <2>1. CASE Reindex("schema_modified", "schema", FALSE)
    BY <2>1, ReindexType DEF Reasons, AllSteps
  <2>2. CASE ~Reindex("schema_modified", "schema", FALSE)
    BY <1>0, <1>2, <2>2, DatabaseWith DEF GenerateSchema, TypeInv, AllSteps
  <2> QED
    BY <2>1, <2>2
<1>3. CASE FireOnReindex
  BY <1>3, DatabaseWith DEF FireOnReindex, TypeInv, AllSteps
<1>4. CASE SaveSchema
  <2> Row(version[Models]) \in SchemaRows
    BY <1>0 DEF Row, SchemaRows
  <2> QED
    BY <1>0, <1>4, DatabaseWith DEF SaveSchema, TypeInv, Checked
<1>5. CASE SaveHash
  <2> [known EXCEPT !.hash = version[Models]] \in SchemaRows
    BY <1>0, <1>5 DEF SaveHash, TypeInv, SchemaRows
  <2> QED
    BY <1>0, <1>5, DatabaseWith DEF SaveHash, TypeInv, Checked
<1>6. CASE CheckHash
  BY <1>0, <1>6, ReindexType DEF CheckHash, Reasons, Checked
<1>7. CASE CheckFlag
  <2>1. CASE known.reindex = NoReason
    BY <1>0, <1>7, <2>1 DEF CheckFlag, TypeInv, Checked
  <2>2. CASE known.reindex # NoReason
    <3> known.reindex \in Reasons
      BY <1>7, <2>2 DEF CheckFlag, TypeInv, SchemaRows
    <3> QED
      BY <1>0, <1>7, <2>2, ReindexType DEF CheckFlag, Checked
  <2> QED
    BY <2>1, <2>2
<1>8. CASE FireOnRestart
  BY <1>0, <1>8 DEF FireOnRestart, TypeInv, Checked
<1>9. CASE SetUpMigrations
  <2>1. migrations' \in Hashes /\ db' \in DatabaseRows
    BY <1>0, <1>9, DatabaseWith DEF SetUpMigrations, InitializeMigrations, TypeInv
  <2>2. /\ pc' \in AllSteps /\ known' \in SchemaRows \cup {NoRow}
        /\ inventory' \subseteq {Contract} \cup Templated
        /\ state' \in [Indexes -> IndexRows \cup {NoRow}]
        /\ command' \in {"run", "init", "configure"}
    BY <1>0, <1>9, DownType DEF SetUpMigrations, TypeInv, Checked
  <2> QED
    BY <1>9, <2>1, <2>2 DEF SetUpMigrations, TypeInv
<1>10. CASE InitializeDatasources
  <2>1. CASE Reindex("rollback", "hasura", FALSE)
    BY <1>0, <2>1, ReindexType DEF Reasons, Checked
  <2>2. CASE ~Reindex("rollback", "hasura", FALSE)
    BY <1>0, <1>10, <2>2 DEF InitializeDatasources, TypeInv, Checked
  <2> QED
    BY <2>1, <2>2
<1>11. CASE CheckMetadata \/ CreateSource \/ ReplaceTables \/ ApplyCustomization \/ ReplaceQueries
            \/ ApplyCustomMetadata
  <2>1. PICK value \in Metadatas, next \in HasuraSteps : Metadata(value, next)
    BY <1>11, MetadataWith DEF CheckMetadata, CreateSource, ReplaceTables, ApplyCustomization,
       ReplaceQueries, ApplyCustomMetadata, Sections, HasuraSteps, TypeInv
  <2> QED
    BY <1>0, <2>1 DEF Metadata, TypeInv, Checked
<1>12. CASE ConfigureFails
  BY <1>12 DEF ConfigureFails, TypeInv
<1>13. CASE SaveMetadataHash
  BY <1>0, <1>13, DatabaseWith DEF SaveMetadataHash, TypeInv, Checked, HasuraSteps
<1>14. CASE HasuraDone
  <2> /\ pc' \in AllSteps /\ known' \in SchemaRows \cup {NoRow}
      /\ inventory' \subseteq {Contract} \cup Templated
      /\ state' \in [Indexes -> IndexRows \cup {NoRow}]
      /\ command' \in {"run", "init", "configure"}
    BY <1>0, <1>14, DownType DEF HasuraDone, TypeInv, Checked, IndexSteps
  <2> QED
    BY <1>14 DEF HasuraDone, TypeInv
<1>15. CASE SpawnIndexes
  <2> DEFINE index == [i \in Indexes |-> IF i \in Configured THEN RowOf(i) ELSE db.index[i]]
             rows == [i \in Indexes |-> IF i \in Configured THEN RowOf(i) ELSE NoRow]
  <2> index \in [Indexes -> IndexRows \cup {NoRow}] /\ rows \in [Indexes -> IndexRows \cup {NoRow}]
    BY Rows, RowOfType
  <2> QED
    BY <1>0, <1>15, DatabaseWith DEF SpawnIndexes, TypeInv, Checked, IndexSteps, SpawnedSteps,
       Running
<1>16. CASE FetchContracts
  BY <1>0, <1>16 DEF FetchContracts, fetch_contracts, TypeInv, Checked, IndexSteps, SpawnedSteps,
     Running
<1>17. CASE LoadIndexState
  <2>1. CASE Reindex("config_modified", "templates", FALSE)
    BY <1>0, <2>1, ReindexType DEF Reasons, Checked, IndexSteps, SpawnedSteps, Running
  <2>2. CASE ~Reindex("config_modified", "templates", FALSE)
    <3> DEFINE index == [i \in Indexes |-> IF i \in Configured THEN [db.index[i] EXCEPT !.hash = version[i]]
                                                               ELSE db.index[i]]
    <3>1. \A i \in Configured : version[i] \in Hashes /\ db.index[i] \in IndexRows \cup {NoRow}
      BY Rows, FactoryAssumption DEF TypeInv, Configured, Parts, Hashes
    <3>2. \A i \in Configured : db.index[i] # NoRow
      BY <1>17, <2>2 DEF LoadIndexState, RowsFit, SpawnedSteps, Running
    <3> index \in [Indexes -> IndexRows \cup {NoRow}]
      BY <3>1, <3>2, Rows DEF IndexRows
    <3> QED
      BY <1>0, <1>17, <2>2, DatabaseWith DEF LoadIndexState, TypeInv, Checked, IndexSteps,
         SpawnedSteps, Running
  <2> QED
    BY <2>1, <2>2
<1>18. CASE AddTemplated
  <2>1. CASE Reindex("config_modified", "running", FALSE)
    BY <1>0, <2>1, ReindexType DEF Reasons, Checked, IndexSteps, SpawnedSteps, Running
  <2>2. CASE Down /\ db' \in {Ignored("config_modified"), db}
             /\ UNCHANGED <<project, metadata, migrations, command, budgets, history>>
    <3> db' \in DatabaseRows
      BY <1>0, <2>2, IgnoredDatabase DEF Ignoring, Reasons
    <3> QED
      BY <2>2, DownType DEF TypeInv
  <2>3. CASE /\ state' = [i \in Indexes |-> IF i \in AddedBefore THEN RowOf(i) ELSE state[i]]
             /\ inventory' = inventory \cup AddedBefore /\ Goto("running")
             /\ UNCHANGED <<databaseVars, metadata, migrations, command, known, budgets, history>>
    <3> /\ state' \in [Indexes -> IndexRows \cup {NoRow}]
                /\ inventory' \subseteq {Contract} \cup Templated
      BY <2>3, RowOfType DEF TypeInv, AddedBefore
    <3> QED
      BY <1>0, <2>3 DEF TypeInv, Checked, IndexSteps, SpawnedSteps, Running
  <2> QED
    BY <1>18, <2>1, <2>2, <2>3, Zenon DEF AddTemplated
<1>19. CASE StoreHead
  BY <1>0, <1>19, DatabaseWith DEF StoreHead, TypeInv, processVars
<1>20. CASE Requested
  BY <1>0, <1>20, ReindexType DEF Requested, Reasons, Checked, IndexSteps, SpawnedSteps, Running
<1>21. ASSUME NEW i \in Indexes, ProcessLevel(i)
       PROVE  TypeInv'
  <2> DEFINE added == SpawnedBy(i)
             row(j) == IF j = i THEN [state[i] EXCEPT !.level = @ + 1]
                       ELSE IF j \in added THEN RowOf(j) ELSE state[j]
  <2>1. CASE added \cap inventory # {}
    BY <1>21, <2>1, DownType DEF ProcessLevel, TypeInv
  <2>2. CASE added \cap inventory = {}
    <3>1. added \subseteq {Contract} \cup Templated
      BY DEF SpawnedBy
    <3>2. state[i] \in IndexRows /\ [state[i] EXCEPT !.level = @ + 1] \in IndexRows
      BY <1>21 DEF ProcessLevel, TypeInv, IndexRows
    <3>3. state' = [j \in Indexes |-> row(j)] /\ state' \in [Indexes -> IndexRows \cup {NoRow}]
      BY <1>21, <2>2, <3>2, RowOfType DEF ProcessLevel, TypeInv
    <3>4. [j \in Indexes |-> IF j \in added \cup {i} THEN state'[j] ELSE db.index[j]]
            \in [Indexes -> IndexRows \cup {NoRow}]
      BY <3>3, Rows
    <3>5. db' \in DatabaseRows
      <4> (db.contract \/ Contract \in added) \in BOOLEAN
        BY Rows
      <4> QED
        BY <1>21, <2>2, <3>4, DatabaseWith DEF ProcessLevel
    <3>6. since' \in [Parts -> Hashes]
      BY <1>21, <2>2 DEF ProcessLevel, TypeInv
    <3> QED
      BY <1>21, <2>2, <3>1, <3>3, <3>5, <3>6 DEF ProcessLevel, TypeInv
  <2> QED
    BY <2>1, <2>2
<1> QED
  BY <1>1, <1>2, <1>3, <1>4, <1>5, <1>6, <1>7, <1>8, <1>9, <1>10, <1>11, <1>12, <1>13, <1>14, <1>15,
     <1>16, <1>17, <1>18, <1>19, <1>20, <1>21 DEF Run

LEMMA UserType ==
  ASSUME TypeInv, User
  PROVE  TypeInv'
<1> USE DEF databaseVars, project, inventoryVars, processVars, budgets, history
<1>1. CASE StartCommand
  BY <1>1 DEF StartCommand, TypeInv
<1>2. CASE Migrate \/ MakeMigration
  <2> version[Models] \in Hashes
    BY NamesAssumption, FactoryAssumption DEF TypeInv, Parts, Hashes
  <2> QED
    BY <1>2, DatabaseWith DEF Migrate, MakeMigration, SchemaMigrate, TypeInv
<1>3. CASE SchemaApprove \/ SchemaUpgrade
  <2> Upgraded \in DatabaseRows
    BY DatabaseWith DEF Upgraded, TypeInv
  <2> [db EXCEPT !.head = NoHash, !.hasura = NoHash] \in DatabaseRows /\ db \in DatabaseRows
    BY DatabaseWith DEF TypeInv
  <2> QED
    BY <1>3, ApproveType DEF SchemaApprove, SchemaUpgrade
<1>4. CASE SchemaWipe
  <2> db' \in DatabaseRows /\ migrations' \in Hashes /\ since' \in [Parts -> Hashes]
    BY <1>4, WipedDatabase DEF SchemaWipe, Wiping, MigrationsWiped, Nothing, Hashes
  <2> QED
    BY <1>4 DEF SchemaWipe, TypeInv
<1>5. CASE EditPart
  <2>1. PICK p \in Parts : MayEdit(p) /\ version' = [version EXCEPT ![p] = 1 - @]
    BY <1>5 DEF EditPart
  <2>2. p \in Parts \ Templated
    BY <2>1, NamesAssumption, FactoryAssumption DEF MayEdit, Configured
  <2>3. 1 - version[p] \in Versions
    BY <2>2 DEF TypeInv, Versions
  <2> QED
    BY <1>5, <2>1, <2>2, <2>3 DEF EditPart, Edit, TypeInv, Hashes
<1>6. CASE EditTemplate
  <2>1. PICK i \in Templated, new \in Hashes : version' = [version EXCEPT ![i] = new]
    BY <1>6 DEF EditTemplate, Hashes
  <2>2. /\ version' \in [Parts -> Hashes]
        /\ \A p \in Parts \ Templated : version'[p] \in Versions
    BY <2>1 DEF TypeInv
  <2> QED
    BY <1>6, <2>2 DEF EditTemplate, Edit, TypeInv
<1>7. CASE Reorg
  <2> 1 - chain \in 0 .. 1
    BY DEF TypeInv
  <2> QED
    BY <1>7 DEF Reorg, Edit, TypeInv
<1>8. CASE ChangeMetadata
  BY <1>8, MetadataWith DEF ChangeMetadata, Edit, TypeInv
<1>9. CASE Stop
  BY <1>9, DownType DEF Stop, TypeInv
<1> QED
  BY <1>1, <1>2, <1>3, <1>4, <1>5, <1>6, <1>7, <1>8, <1>9 DEF User

LEMMA OtherType ==
  ASSUME TypeInv,
         \/ RefreshState \/ RequestOfHook \/ RequestOfHandler \/ RollbackTooDeep
         \/ \E i \in Indexes : RollbackLevel(i)
  PROVE  TypeInv'
<1> USE DEF databaseVars, project, inventoryVars, processVars, budgets, history
<1>1. CASE RefreshState
  BY <1>1, Rows DEF RefreshState, TypeInv
<1>2. CASE RequestOfHook \/ RequestOfHandler \/ RollbackTooDeep
  BY <1>2 DEF RequestOfHook, RequestOfHandler, RollbackTooDeep, Request, Goto, TypeInv, AllSteps,
     Checked, IndexSteps, SpawnedSteps, Running, Requests
<1>3. ASSUME NEW i \in Indexes, RollbackLevel(i) PROVE TypeInv'
  <2>1. [state[i] EXCEPT !.level = @ - 1] \in IndexRows
    BY <1>3 DEF RollbackLevel, TypeInv, IndexRows
  <2>2. state' \in [Indexes -> IndexRows \cup {NoRow}] /\ state'[i] \in IndexRows
    BY <1>3, <2>1 DEF RollbackLevel, TypeInv
  <2>3. [db.index EXCEPT ![i] = state'[i]] \in [Indexes -> IndexRows \cup {NoRow}]
    BY <2>2, Rows
  <2>4. db' = [db EXCEPT !.index = [db.index EXCEPT ![i] = state'[i]]]
    BY <1>3 DEF RollbackLevel
  <2>5. db' \in DatabaseRows
    BY <2>3, <2>4, DatabaseWith
  <2> QED
    BY <1>3, <2>2, <2>5 DEF RollbackLevel, TypeInv
<1> QED
  BY <1>1, <1>2, <1>3

-----------------------------------------------------------------------------
(* Steps, rows and hashes.                                                  *)

LEMMA StoppedBase ==
  ASSUME pc' = "down", SchemaFits'
  PROVE  (RowsFit /\ StepsFit /\ SchemaFits /\ HashChecked)'
  BY DEF RowsFit, StepsFit, HashChecked, Checked, HasuraSteps, IndexSteps, SpawnedSteps, Running,
     Requests

LEMMA ReindexedBase ==
  ASSUME Base, NEW reason \in Reasons, NEW next, NEW inHandler \in BOOLEAN,
         Reindexed(reason, next, inHandler),
         GoesOn(reason, next) => (RowsFit /\ StepsFit /\ SchemaFits /\ HashChecked)'
  PROVE  (RowsFit /\ StepsFit /\ SchemaFits /\ HashChecked)'
<1>1. /\ GoesOn(reason, next) \/ Raised(reason, inHandler) \/ WipedAll(reason, inHandler)
      /\ UNCHANGED <<policy, database, version, chain, metadata, command, approved>>
  BY ReindexedDoes DEF Base
<1>2. CASE Raised(reason, inHandler)
  <2>1. CASE db' = db
    BY <1>1, <1>2, <2>1, StoppedBase DEF Base, Raised, Stopped, SchemaFits, Action
  <2>2. CASE db.schema # NoRow /\ Flagging(db', reason)
    <3>1. db.schema \in SchemaRows
      BY <2>2, Rows DEF Base
    <3>2. SchemaFits'
      BY <1>1, <1>2, <2>2, <3>1, FlaggedSchema DEF Base, Raised, Flagging, SchemaFits, Action
    <3> QED
      BY <1>1, <1>2, <3>2, StoppedBase DEF Raised, Stopped
  <2> QED
    BY <1>2, <2>1, <2>2 DEF Raised
<1>3. CASE WipedAll(reason, inHandler)
  BY <1>1, <1>3, StoppedBase DEF Base, WipedAll, Stopped, Wiping, SchemaFits, Action
<1> QED
  BY <1>1, <1>2, <1>3

LEMMA ReindexBase ==
  ASSUME Base, NEW reason \in Reasons, NEW next, NEW inHandler \in BOOLEAN,
         Reindex(reason, next, inHandler),
         GoesOn(reason, next) => (RowsFit /\ StepsFit /\ SchemaFits /\ HashChecked)'
  PROVE  (RowsFit /\ StepsFit /\ SchemaFits /\ HashChecked)'
BY ReindexedBase DEF Reindex

LEMMA RunBase ==
  ASSUME Base, Run
  PROVE  (RowsFit /\ StepsFit /\ SchemaFits /\ HashChecked)'
<1> USE DEF databaseVars, project, inventoryVars, budgets, history, Goto
<1>0. /\ TypeInv /\ RowsFit /\ StepsFit /\ SchemaFits /\ HashChecked
      /\ db \in DatabaseRows /\ version[Models] \in Versions /\ version[Models] # NoHash
  BY NamesAssumption, FactoryAssumption DEF Base, TypeInv, Parts
<1> DEFINE Inv == RowsFit /\ StepsFit /\ SchemaFits /\ HashChecked
<1>1. CASE ReadSchema
  BY <1>0, <1>1 DEF ReadSchema, RowsFit, StepsFit, SchemaFits, HashChecked, Ignores, Action,
     Checked, HasuraSteps, IndexSteps, SpawnedSteps, Running, Requests
<1>2. CASE GenerateSchema
  <2>1. CASE /\ db.tables \notin {NoHash, version[Models]}
             /\ Reindex("schema_modified", "schema", FALSE)
    <3> SUFFICES ASSUME GoesOn("schema_modified", "schema")
                 PROVE  Inv'
      BY <2>1, ReindexBase DEF Reasons
    <3>1. UNCHANGED <<policy, version, command>>
      BY <1>0, <2>1, ReindexDoes DEF Reasons
    <3>2. db.schema # NoRow => db.schema \in SchemaRows
               /\ db'.schema = [db.schema EXCEPT !.hash = NoHash]
                               /\ db'.schema # NoRow /\ db'.schema.reindex = db.schema.reindex
      BY <1>0, Rows, ResetSchema DEF GoesOn, Ignoring
    <3>3. db.schema = NoRow => db'.schema = NoRow
      BY DEF GoesOn, Ignoring
    <3> QED
      BY <1>0, <1>2, <2>1, <3>1, <3>2, <3>3 DEF GenerateSchema, GoesOn, Ignoring, RowsFit, StepsFit,
         SchemaFits, HashChecked, Ignores, Action, Checked, HasuraSteps, IndexSteps, SpawnedSteps,
         Running, Requests
  <2>2. CASE ~(/\ db.tables \notin {NoHash, version[Models]}
               /\ Reindex("schema_modified", "schema", FALSE))
    BY <1>0, <1>2, <2>2 DEF GenerateSchema, DatabaseRows, RowsFit, StepsFit, SchemaFits,
       HashChecked, Ignores, Action, Checked, HasuraSteps, IndexSteps, SpawnedSteps, Running,
       Requests
  <2> QED
    BY <1>2, <2>1, <2>2 DEF GenerateSchema
<1>3. CASE FireOnReindex
  BY <1>0, <1>3 DEF FireOnReindex, DatabaseRows, RowsFit, StepsFit, SchemaFits, HashChecked,
     Ignores, Action, Checked, HasuraSteps, IndexSteps, SpawnedSteps, Running, Requests
<1>4. CASE SaveSchema
  <2> Row(version[Models]) # NoRow /\ Row(version[Models]).hash = version[Models]
      /\ Row(version[Models]).reindex = NoReason
    BY <1>0, NamesAssumption DEF Row, SchemaRows, Hashes
  <2> QED
    BY <1>0, <1>4 DEF SaveSchema, DatabaseRows, RowsFit, StepsFit, SchemaFits, HashChecked, Ignores,
       Action, Checked, HasuraSteps, IndexSteps, SpawnedSteps, Running, Requests
<1>5. CASE SaveHash
  <2>1. known \in SchemaRows /\ db.schema \in SchemaRows /\ db.schema.reindex = known.reindex
    BY <1>0, <1>5, Rows, NamesAssumption DEF SaveHash, StepsFit, TypeInv, SchemaRows
  <2>2. /\ [known EXCEPT !.hash = version[Models]] # NoRow
        /\ [known EXCEPT !.hash = version[Models]].hash = version[Models]
        /\ [known EXCEPT !.hash = version[Models]].reindex = known.reindex
    BY <1>0, <2>1, NamesAssumption DEF SchemaRows, Hashes
  <2>3. /\ db'.schema = [known EXCEPT !.hash = version[Models]]
        /\ db'.tables = db.tables /\ db'.prepared = db.prepared /\ db'.index = db.index
    BY <1>0, <1>5 DEF SaveHash, DatabaseRows
  <2>4. db'.schema # NoRow /\ db'.schema.hash = version[Models]
             /\ db'.schema.reindex = db.schema.reindex
    BY <2>1, <2>2, <2>3
  <2> QED
    BY <1>0, <1>5, <2>1, <2>3, <2>4, NamesAssumption DEF SaveHash, RowsFit, StepsFit, SchemaFits,
       HashChecked, Ignores, Action, Checked, HasuraSteps, IndexSteps, SpawnedSteps, Running,
       Requests
<1>6. CASE CheckHash
  <2> SUFFICES ASSUME GoesOn("schema_modified", "restart")
               PROVE  Inv'
    BY <1>6, ReindexBase DEF CheckHash, Reasons
  <2>1. UNCHANGED <<policy, version, command>>
    BY <1>0, <1>6, ReindexDoes DEF CheckHash, Reasons
  <2>2. db.schema # NoRow
    BY <1>0, <1>6, NamesAssumption, ResetSchema DEF CheckHash, StepsFit, TypeInv
  <2>3. /\ db'.schema # NoRow /\ db'.schema.reindex = db.schema.reindex
    BY <1>0, <2>2, Rows, ResetSchema DEF GoesOn, Ignoring
  <2> QED
    BY <1>0, <1>6, <2>1, <2>2, <2>3 DEF CheckHash, GoesOn, Ignoring, RowsFit, StepsFit, SchemaFits,
       HashChecked, Ignores, Action, Checked, HasuraSteps, IndexSteps, SpawnedSteps, Running,
       Requests
<1>7. CASE CheckFlag
  <2>0. known \in SchemaRows /\ known # NoRow
        /\ (db.schema = known \/ (Ignores("schema_modified") /\ db.schema = [known EXCEPT !.hash = NoHash]))
    BY <1>0, <1>7 DEF CheckFlag, StepsFit, TypeInv
  <2>1. /\ known \in SchemaRows /\ known # NoRow /\ db.schema # NoRow
        /\ db.schema.reindex = known.reindex
        /\ ~Ignores("schema_modified") => db.schema.hash = version[Models]
    BY <1>7, <2>0, NamesAssumption, ResetSchema DEF CheckFlag
  <2>2. CASE known.reindex = NoReason
    BY <1>0, <1>7, <2>1, <2>2 DEF CheckFlag, RowsFit, StepsFit, SchemaFits, HashChecked, Ignores,
       Action, Checked, HasuraSteps, IndexSteps, SpawnedSteps, Running, Requests
  <2>3. CASE known.reindex # NoReason
    <3>1. known.reindex \in Reasons /\ Reindex(known.reindex, "restart", FALSE)
      BY <1>7, <2>1, <2>3 DEF CheckFlag, SchemaRows
    <3>2. ~GoesOn(known.reindex, "restart")
      BY <1>0, <2>1, <2>3 DEF GoesOn, SchemaFits
    <3> QED
      BY <3>1, <3>2, ReindexBase
  <2> QED
    BY <2>2, <2>3
<1>8. CASE FireOnRestart
  BY <1>0, <1>8 DEF FireOnRestart, RowsFit, StepsFit, SchemaFits, HashChecked, Ignores, Action,
     Checked, HasuraSteps, IndexSteps, SpawnedSteps, Running, Requests
<1>9. CASE SetUpMigrations
  <2>1. /\ db'.schema = db.schema /\ db'.tables = db.tables /\ db'.prepared = db.prepared
        /\ db'.index = db.index
    BY <1>0, <1>9 DEF SetUpMigrations, InitializeMigrations, DatabaseRows
  <2> QED
    BY <1>0, <1>9, <2>1 DEF SetUpMigrations, Down, RowsFit, StepsFit, SchemaFits, HashChecked,
       Ignores, Action, Checked, HasuraSteps, IndexSteps, SpawnedSteps, Running, Requests
<1>10. CASE InitializeDatasources
  <2>1. CASE db.head \notin {NoHash, chain} /\ Reindex("rollback", "hasura", FALSE)
    <3> SUFFICES ASSUME GoesOn("rollback", "hasura")
                 PROVE  Inv'
      BY <2>1, ReindexBase DEF Reasons
    <3>1. UNCHANGED <<policy, version, command>>
      BY <1>0, <2>1, ReindexDoes DEF Reasons
    <3> QED
      BY <1>0, <1>10, <3>1 DEF InitializeDatasources, GoesOn, Ignoring, RowsFit, StepsFit,
         SchemaFits, HashChecked, Ignores, Action, Checked, HasuraSteps, IndexSteps, SpawnedSteps,
         Running, Requests
  <2>2. CASE db.head \in {NoHash, chain}
    BY <1>0, <1>10, <2>2 DEF InitializeDatasources, RowsFit, StepsFit, SchemaFits, HashChecked,
       Ignores, Action, Checked, HasuraSteps, IndexSteps, SpawnedSteps, Running, Requests
  <2> QED
    BY <1>10, <2>1, <2>2 DEF InitializeDatasources
<1>11. CASE CheckMetadata \/ CreateSource \/ ReplaceTables \/ ApplyCustomization \/ ReplaceQueries
            \/ ApplyCustomMetadata
  BY <1>0, <1>11 DEF CheckMetadata, CreateSource, ReplaceTables, ApplyCustomization, ReplaceQueries,
     ApplyCustomMetadata, Metadata, RowsFit, StepsFit, SchemaFits, HashChecked, Ignores, Action,
     Checked, HasuraSteps, IndexSteps, SpawnedSteps, Running, Requests
<1>12. CASE ConfigureFails
  BY <1>0, <1>12 DEF ConfigureFails, RowsFit, StepsFit, SchemaFits, HashChecked, Ignores, Action,
     Checked, HasuraSteps, IndexSteps, SpawnedSteps, Running, Requests
<1>13. CASE SaveMetadataHash
  <2>1. /\ db'.schema = db.schema /\ db'.tables = db.tables /\ db'.prepared = db.prepared
        /\ db'.index = db.index
    BY <1>0, <1>13 DEF SaveMetadataHash, DatabaseRows
  <2> QED
    BY <1>0, <1>13, <2>1 DEF SaveMetadataHash, RowsFit, StepsFit, SchemaFits, HashChecked, Ignores,
       Action, Checked, HasuraSteps, IndexSteps, SpawnedSteps, Running, Requests
<1>14. CASE HasuraDone
  BY <1>0, <1>14 DEF HasuraDone, Down, RowsFit, StepsFit, SchemaFits, HashChecked, Ignores, Action,
     Checked, HasuraSteps, IndexSteps, SpawnedSteps, Running, Requests
<1>15. CASE SpawnIndexes
  <2>1. /\ db'.schema = db.schema /\ db'.tables = db.tables /\ db'.prepared = db.prepared
        /\ \A i \in Configured : db'.index[i] = RowOf(i)
    BY <1>0, <1>15 DEF SpawnIndexes, DatabaseRows, Configured
  <2>2. \A i \in Configured : RowOf(i) # NoRow
    BY <1>0, RowOfType DEF Configured
  <2> QED
    BY <1>0, <1>15, <2>1, <2>2 DEF SpawnIndexes, RowsFit, StepsFit, SchemaFits, HashChecked,
       Ignores, Action, Checked, HasuraSteps, IndexSteps, SpawnedSteps, Running, Requests
<1>16. CASE FetchContracts
  BY <1>0, <1>16 DEF FetchContracts, RowsFit, StepsFit, SchemaFits, HashChecked, Ignores, Action,
     Checked, HasuraSteps, IndexSteps, SpawnedSteps, Running, Requests
<1>17. CASE LoadIndexState
  <2>1. CASE Reindex("config_modified", "templates", FALSE)
    <3> SUFFICES ASSUME GoesOn("config_modified", "templates")
                 PROVE  Inv'
      BY <2>1, ReindexBase DEF Reasons
    <3>1. UNCHANGED <<policy, version, command>>
      BY <1>0, <2>1, ReindexDoes DEF Reasons
    <3>2. \A i \in Configured : db.index[i] # NoRow => db'.index[i] # NoRow
      BY <1>0, Rows, ResetRow DEF GoesOn, Ignoring, Configured
    <3> QED
      BY <1>0, <1>17, <3>1, <3>2 DEF LoadIndexState, GoesOn, Ignoring, RowsFit, StepsFit,
         SchemaFits, HashChecked, Ignores, Action, Checked, HasuraSteps, IndexSteps, SpawnedSteps,
         Running, Requests
  <2>2. CASE ~Reindex("config_modified", "templates", FALSE)
    <3>1. /\ db'.schema = db.schema /\ db'.tables = db.tables /\ db'.prepared = db.prepared
          /\ \A i \in Configured : db'.index[i] = [db.index[i] EXCEPT !.hash = version[i]]
      BY <1>0, <1>17, <2>2 DEF LoadIndexState, DatabaseRows, Configured
    <3>2. \A i \in Configured : db.index[i] \in IndexRows /\ version[i] \in Hashes
      BY <1>0, <1>17, Rows, FactoryAssumption DEF LoadIndexState, RowsFit, SpawnedSteps, Running,
         Configured, TypeInv, Parts, Hashes
    <3>3. ASSUME NEW i \in Configured PROVE db'.index[i] # NoRow
      <4> [db.index[i] EXCEPT !.hash = version[i]] # NoRow
        BY <3>2, HashedRow
      <4> QED
        BY <3>1
    <3> QED
      BY <1>0, <1>17, <2>2, <3>1, <3>3 DEF LoadIndexState, RowsFit, StepsFit, SchemaFits,
         HashChecked, Ignores, Action, Checked, HasuraSteps, IndexSteps, SpawnedSteps, Running,
         Requests
  <2> QED
    BY <2>1, <2>2
<1>18. CASE AddTemplated
  <2>1. CASE Reindex("config_modified", "running", FALSE) /\ Action("config_modified") # "ignore"
    BY <2>1, ReindexBase DEF Reasons, GoesOn
  <2>2. CASE Down /\ db' \in {Ignored("config_modified"), db}
             /\ UNCHANGED <<project, metadata, migrations, command, budgets, history>>
    <3> db'.schema = db.schema /\ db'.tables = db.tables /\ db'.prepared = db.prepared
      BY <1>0, <2>2, IgnoredDatabase DEF Ignoring, Reasons
    <3> SchemaFits'
      BY <1>0, <2>2 DEF SchemaFits, Action
    <3> QED
      BY <2>2, StoppedBase DEF Down
  <2>3. CASE Goto("running")
                  /\ UNCHANGED <<databaseVars, metadata, migrations, command, known, budgets, history>>
    BY <1>0, <1>18, <2>3 DEF AddTemplated, RowsFit, StepsFit, SchemaFits, HashChecked, Ignores,
       Action, Checked, HasuraSteps, IndexSteps, SpawnedSteps, Running, Requests
  <2> QED
    BY <1>18, <2>1, <2>2, <2>3, Zenon DEF AddTemplated
<1>19. CASE StoreHead
  <2>1. /\ db'.schema = db.schema /\ db'.tables = db.tables /\ db'.prepared = db.prepared
        /\ db'.index = db.index
    BY <1>0, <1>19 DEF StoreHead, DatabaseRows
  <2> QED
    BY <1>0, <1>19, <2>1 DEF StoreHead, processVars, RowsFit, StepsFit, SchemaFits, HashChecked,
       Ignores, Action, Checked, HasuraSteps, IndexSteps, SpawnedSteps, Running, Requests
<1>20. CASE Requested
  <2>1. PICK reason \in {"manual", "rollback"}, inHandler \in BOOLEAN : Reindex(reason, "running", inHandler)
    BY <1>20 DEF Requested
  <2> SUFFICES ASSUME GoesOn(reason, "running")
               PROVE  Inv'
    BY <2>1, ReindexBase DEF Reasons
  <2>2. UNCHANGED <<policy, version, command>>
    BY <1>0, <2>1, ReindexDoes DEF Reasons
  <2> QED
    BY <1>0, <1>20, <2>2 DEF Requested, GoesOn, Ignoring, RowsFit, StepsFit, SchemaFits,
       HashChecked, Ignores, Action, Checked, HasuraSteps, IndexSteps, SpawnedSteps, Running,
       Requests
<1>21. ASSUME NEW i \in Indexes, ProcessLevel(i)
       PROVE  Inv'
  <2>1. CASE SpawnedBy(i) \cap inventory # {}
    <3> SchemaFits'
      BY <1>0, <1>21, <2>1 DEF ProcessLevel, SchemaFits, Action
    <3> QED
      BY <1>21, <2>1, StoppedBase DEF ProcessLevel, Down
  <2>2. CASE SpawnedBy(i) \cap inventory = {}
    <3>1. /\ db'.schema = db.schema /\ db'.tables = db.tables /\ db'.prepared = db.prepared
          /\ \A j \in Indexes : db'.index[j] = IF j \in SpawnedBy(i) \cup {i} THEN state'[j]
                  ELSE db.index[j]
      <4> DEFINE rows == [j \in Indexes |-> IF j \in SpawnedBy(i) \cup {i} THEN state'[j] ELSE db.index[j]]
      <4>1. db' = [db EXCEPT !.contract = @ \/ Contract \in SpawnedBy(i), !.index = rows]
        BY <1>21, <2>2 DEF ProcessLevel
      <4>2. /\ db'.schema = db.schema /\ db'.tables = db.tables /\ db'.prepared = db.prepared
            /\ db'.index = rows
        <5> HIDE DEF rows
        <5> QED
          BY <1>0, <4>1 DEF DatabaseRows
      <4> QED
        BY <4>2
    <3>2. \A j \in Indexes : j \in SpawnedBy(i) \cup {i} => state'[j] # NoRow
      <4>1. state[i] \in IndexRows /\ [state[i] EXCEPT !.level = @ + 1] \in IndexRows
        BY <1>0, <1>21 DEF ProcessLevel, TypeInv, IndexRows
      <4> QED
        BY <1>0, <1>21, <2>2, <4>1, RowOfType, NamesAssumption DEF ProcessLevel
    <3>3. \A j \in Indexes : db.index[j] # NoRow => db'.index[j] # NoRow
      BY <3>1, <3>2
    <3> QED
      BY <1>0, <1>21, <2>2, <3>1, <3>3 DEF ProcessLevel, Configured, RowsFit, StepsFit, SchemaFits,
         HashChecked, Ignores, Action, Checked, HasuraSteps, IndexSteps, SpawnedSteps, Running,
         Requests
  <2> QED
    BY <2>1, <2>2
<1> QED
  BY <1>1, <1>2, <1>3, <1>4, <1>5, <1>6, <1>7, <1>8, <1>9, <1>10, <1>11, <1>12, <1>13, <1>14, <1>15,
     <1>16, <1>17, <1>18, <1>19, <1>20, <1>21 DEF Run

LEMMA ApproveKeeps ==
  ASSUME TypeInv, NEW d \in DatabaseRows, Approve(d)
  PROVE  /\ Approving(d, db') /\ d.schema # NoRow /\ db'.schema # NoRow
         /\ db'.schema.hash = NoHash /\ db'.schema.reindex = NoReason
         /\ UNCHANGED <<project, metadata, migrations, processVars, edits, stops>>
  BY ApprovedDatabase, NamesAssumption DEF Approve, Approving, SchemaRows, Hashes

LEMMA UpgradedDatabase ==
  ASSUME TypeInv
  PROVE  /\ Upgraded \in DatabaseRows
         /\ Upgraded.schema = db.schema /\ Upgraded.index = db.index /\ Upgraded.head = db.head
         /\ Upgraded.hasura = db.hasura /\ Upgraded.prepared = db.prepared
                 /\ Upgraded.contract = db.contract
         /\ Upgraded.tables \in {db.tables, migrations}
<1>1. db \in DatabaseRows /\ migrations \in Hashes
  BY DEF TypeInv
<1>2. Upgraded \in DatabaseRows
  BY <1>1, DatabaseWith DEF Upgraded
<1> QED
  BY <1>1, <1>2 DEF Upgraded, DatabaseRows

LEMMA ForgottenDatabase ==
  ASSUME TypeInv
  PROVE  LET d == [db EXCEPT !.head = NoHash, !.hasura = NoHash] IN
         /\ d \in DatabaseRows
         /\ d.schema = db.schema /\ d.index = db.index /\ d.head = NoHash /\ d.hasura = NoHash
         /\ d.prepared = db.prepared /\ d.contract = db.contract /\ d.tables = db.tables
<1>1. db \in DatabaseRows
  BY DEF TypeInv
<1>2. [db EXCEPT !.head = NoHash, !.hasura = NoHash] \in DatabaseRows
  BY DatabaseWith
<1> QED
  BY <1>1, <1>2 DEF DatabaseRows

(* What is approved: the database as it is, or upgraded, or with its head   *)
(* and the hash of Hasura's metadata forgotten.                             *)
LEMMA ApprovedOne ==
  ASSUME TypeInv, SchemaApprove \/ SchemaUpgrade
  PROVE  \E d \in DatabaseRows :
           /\ Approve(d)
           /\ d.schema = db.schema /\ d.index = db.index /\ d.head \in {db.head, NoHash}
           /\ d.hasura \in {db.hasura, NoHash}
           /\ d.prepared = db.prepared /\ d.contract = db.contract
           /\ d.tables = db.tables \/ (Upgradable /\ d.tables = migrations)
  BY UpgradedDatabase, ForgottenDatabase DEF SchemaApprove, SchemaUpgrade, TypeInv

LEMMA UserBase ==
  ASSUME Base, User
  PROVE  (RowsFit /\ StepsFit /\ SchemaFits /\ HashChecked)'
<1> USE DEF databaseVars, project, inventoryVars, processVars, budgets, history
<1>0. TypeInv /\ SchemaFits /\ db \in DatabaseRows
  BY DEF Base, TypeInv
<1> SUFFICES pc' = "down" /\ SchemaFits'
  BY StoppedBase
<1>1. CASE db' = db /\ policy' = policy /\ pc' = "down"
  BY <1>0, <1>1 DEF SchemaFits, Action
<1>2. CASE StartCommand \/ MakeMigration \/ EditPart \/ EditTemplate \/ Reorg \/ ChangeMetadata
                \/ Stop
  BY <1>1, <1>2 DEF StartCommand, MakeMigration, EditPart, EditTemplate, Reorg, ChangeMetadata,
     Edit, Stop, Command, Down
<1>3. CASE Migrate
  <2> version[Models] # NoHash
    BY <1>0, NamesAssumption, FactoryAssumption DEF TypeInv, Parts
  <2> QED
    BY <1>0, <1>3 DEF Migrate, SchemaFits, Action, DatabaseRows
<1>4. CASE SchemaApprove \/ SchemaUpgrade
  <2>1. PICK d \in DatabaseRows :
          /\ Approve(d) /\ d.schema = db.schema /\ d.prepared = db.prepared
          /\ d.tables = db.tables \/ (Upgradable /\ d.tables = migrations)
    BY <1>0, <1>4, ApprovedOne
  <2>2. d.prepared /\ d.tables # NoHash
    BY <1>0, <2>1, ApproveKeeps DEF SchemaFits, Upgradable
  <2> QED
    BY <1>0, <2>1, <2>2, ApproveKeeps DEF Approving, SchemaFits, Approve, Command
<1>5. CASE SchemaWipe
  <2> Wiping(db') /\ pc' = "down"
    BY <1>0, <1>5, WipedDatabase DEF SchemaWipe, Command
  <2> QED
    BY DEF Wiping, SchemaFits
<1> QED
  BY <1>2, <1>3, <1>4, <1>5 DEF User

LEMMA OtherBase ==
  ASSUME Base,
         \/ RefreshState \/ RequestOfHook \/ RequestOfHandler \/ RollbackTooDeep
         \/ \E i \in Indexes : RollbackLevel(i)
  PROVE  (RowsFit /\ StepsFit /\ SchemaFits /\ HashChecked)'
<1> USE DEF databaseVars, project, inventoryVars, processVars, budgets, history
<1>0. TypeInv /\ RowsFit /\ StepsFit /\ SchemaFits /\ HashChecked /\ db \in DatabaseRows
  BY DEF Base, TypeInv
<1>1. CASE RefreshState
  BY <1>0, <1>1 DEF RefreshState, RowsFit, StepsFit, SchemaFits, HashChecked, Ignores, Action,
     Checked, HasuraSteps, IndexSteps, SpawnedSteps, Running, Requests
<1>2. CASE RequestOfHook \/ RequestOfHandler \/ RollbackTooDeep
  BY <1>0, <1>2 DEF RequestOfHook, RequestOfHandler, RollbackTooDeep, Request, Goto, RowsFit,
     StepsFit, SchemaFits, HashChecked, Ignores, Action, Checked, HasuraSteps, IndexSteps,
     SpawnedSteps, Running, Requests
<1>3. ASSUME NEW i \in Indexes, RollbackLevel(i)
      PROVE  (RowsFit /\ StepsFit /\ SchemaFits /\ HashChecked)'
  <2>1. db' = [db EXCEPT !.index = [db.index EXCEPT ![i] = state'[i]]]
    BY <1>3 DEF RollbackLevel
  <2>2. state[i] \in IndexRows /\ state'[i] = [state[i] EXCEPT !.level = @ - 1]
    BY <1>0, <1>3 DEF RollbackLevel, TypeInv
  <2>3. state'[i] # NoRow
    BY <1>3, <2>2, NamesAssumption DEF RollbackLevel, IndexRows
  <2>4. /\ db'.schema = db.schema /\ db'.tables = db.tables /\ db'.prepared = db.prepared
        /\ \A j \in Configured : db.index[j] # NoRow => db'.index[j] # NoRow
    BY <1>0, <2>1, <2>3 DEF DatabaseRows, Configured
  <2> QED
    BY <1>0, <1>3, <2>4 DEF RollbackLevel, RowsFit, StepsFit, SchemaFits, HashChecked, Ignores,
       Action, Checked, HasuraSteps, IndexSteps, SpawnedSteps, Running, Requests
<1> QED
  BY <1>1, <1>2, <1>3

LEMMA BaseInit ==
  ASSUME "unsaved_row" \notin Circumstances
  PROVE  Init => Base
<1> SUFFICES ASSUME Init PROVE Base
  OBVIOUS
<1>1. db = Empty /\ pc = "down" /\ command = "run"
  BY DEF Init, DatabaseInit
<1> QED
  BY <1>1, TypeInit DEF Base, Empty, RowsFit, StepsFit, SchemaFits, HashChecked, Ignores, Action,
     Checked, HasuraSteps, IndexSteps, SpawnedSteps, Running, Requests

LEMMA BaseStep ==
  ASSUME Base, [Next]_vars
  PROVE  Base'
<1>1. CASE UNCHANGED vars
  BY <1>1 DEF vars, databaseVars, processVars, inventoryVars, budgets, history, Base, TypeInv,
     RowsFit, StepsFit, SchemaFits, HashChecked, Ignores, Action, Checked, HasuraSteps, IndexSteps,
     SpawnedSteps, Running, Requests
<1>2. CASE Run
  BY <1>2, RunType, RunBase DEF Base
<1>3. CASE User
  BY <1>3, UserType, UserBase DEF Base
<1>4. CASE SaveSchemaFails
  <2>1. /\ Reindexed("schema_modified", "restart", FALSE)
        /\ ~GoesOn("schema_modified", "restart")
    BY <1>4 DEF SaveSchemaFails, GoesOn, Base
  <2> QED
    BY <2>1, ReindexedType, ReindexedBase DEF Base, Reasons, AllSteps, Checked
<1>5. CASE Next /\ ~Run /\ ~User /\ ~SaveSchemaFails
  BY <1>5, OtherType, OtherBase DEF Base, Next
<1> QED
  BY <1>1, <1>2, <1>3, <1>4, <1>5 DEF Next

-----------------------------------------------------------------------------
(* Where reindex() is called from, and what every other step leaves alone.  *)
Reindexing ==
  \/ /\ pc = "generate" /\ db.tables \notin {NoHash, version[Models]}
     /\ Reindex("schema_modified", "schema", FALSE)
  \/ CheckHash
  \/ /\ pc = "schema" /\ known # NoRow /\ known.hash = version[Models] /\ known.reindex # NoReason
     /\ Reindex(known.reindex, "restart", FALSE)
  \/ /\ pc = "datasources" /\ db.head \notin {NoHash, chain} /\ Reindex("rollback", "hasura", FALSE)
  \/ /\ pc = "load" /\ (\E i \in Configured : db.index[i].hash \notin {NoHash, version[i]})
     /\ Reindex("config_modified", "templates", FALSE)
  \/ /\ pc = "templates" /\ (\E i \in AddedBefore : ~InTemplates(i)) /\ ~Ignores("config_modified")
     /\ Reindex("config_modified", "running", FALSE)
  \/ SaveSchemaFails
  \/ Requested

(* The reason and the next step by where it is called.                      *)
From(reason, next, inHandler) ==
  \/ /\ pc = "generate" /\ db.tables \notin {NoHash, version[Models]}
     /\ reason = "schema_modified" /\ next = "schema" /\ ~inHandler
  \/ /\ pc = "schema" /\ known \in SchemaRows /\ known.hash \notin {NoHash, version[Models]}
     /\ reason = "schema_modified" /\ next = "restart" /\ ~inHandler
  \/ /\ pc = "schema" /\ known \in SchemaRows /\ known.hash = version[Models]
             /\ known.reindex # NoReason
     /\ reason = known.reindex /\ next = "restart" /\ ~inHandler
  \/ /\ pc = "save_schema" /\ ~Ignores("schema_modified")
     /\ reason = "schema_modified" /\ next = "restart" /\ ~inHandler
  \/ /\ pc = "datasources" /\ db.head \notin {NoHash, chain}
     /\ reason = "rollback" /\ next = "hasura" /\ ~inHandler
  \/ /\ pc = "load" /\ (\E i \in Configured : db.index[i].hash \notin {NoHash, version[i]})
     /\ reason = "config_modified" /\ next = "templates" /\ ~inHandler
  \/ /\ pc = "templates" /\ (\E i \in AddedBefore : ~InTemplates(i)) /\ ~Ignores("config_modified")
     /\ reason = "config_modified" /\ next = "running" /\ ~inHandler
  \/ /\ pc \in Requests /\ reason \in {"manual", "rollback"} /\ next = "running"
     /\ inHandler => pc = "asked_by_handler" /\ reason = "manual"

LEMMA ReindexingDoes ==
  ASSUME Base, Reindexing
  PROVE  \E reason \in Reasons, next \in AllSteps, inHandler \in BOOLEAN :
           /\ From(reason, next, inHandler)
           /\ GoesOn(reason, next) \/ Raised(reason, inHandler) \/ WipedAll(reason, inHandler)
           /\ UNCHANGED <<policy, database, version, chain, metadata, command, approved>>
<1>1. known \in SchemaRows \cup {NoRow}
  BY DEF Base, TypeInv
<1>2. PICK reason \in Reasons, next \in AllSteps, inHandler \in BOOLEAN :
        Reindexed(reason, next, inHandler) /\ From(reason, next, inHandler)
  <2>1. CASE /\ pc = "schema" /\ known # NoRow /\ known.hash = version[Models]
                     /\ known.reindex # NoReason
             /\ Reindex(known.reindex, "restart", FALSE)
    <3> known.reindex \in Reasons
      BY <1>1, <2>1 DEF SchemaRows
    <3> QED
      BY <1>1, <2>1 DEF AllSteps, Checked, From, Reindex
  <2>2. CASE CheckHash
    BY <1>1, <2>2 DEF CheckHash, Reindex, From, Reasons, AllSteps, Checked
  <2>3. CASE Requested
    <3>1. PICK reason \in {"manual", "rollback"}, inHandler \in BOOLEAN :
            /\ Reindex(reason, "running", inHandler) /\ pc \in Requests
            /\ inHandler => pc = "asked_by_handler" /\ reason = "manual"
      BY <2>3 DEF Requested, Requests
    <3> QED
      BY <3>1 DEF Reindex, From, Reasons, AllSteps, Checked, IndexSteps, SpawnedSteps, Running
  <2>4. CASE SaveSchemaFails
    BY <2>4 DEF SaveSchemaFails, From, Ignores, Reasons, AllSteps, Checked, Base
  <2> QED
    BY <2>1, <2>2, <2>3, <2>4 DEF Reindexing, Reindex, From, Reasons, AllSteps, Checked, IndexSteps,
       SpawnedSteps, Running
<1> QED
  BY <1>2, ReindexedDoes DEF Base

LEMMA RunFrame ==
  ASSUME Base, Run, ~Reindexing
  PROVE  /\ UNCHANGED <<database, policy, version, chain, demanded>>
         /\ GenerateSchema \/ db'.tables = db.tables
         /\ SaveSchema \/ SaveHash \/ db'.schema = db.schema
         /\ SaveMetadataHash \/ db'.hasura = db.hasura
         /\ StoreHead \/ db'.head = db.head
         /\ \/ SpawnIndexes \/ LoadIndexState \/ AddTemplated \/ (\E i \in Indexes : ProcessLevel(i))
            \/ db'.index = db.index
         /\ (\E i \in Indexes : ProcessLevel(i)) \/ UNCHANGED <<since, approved>>
         /\ SetUpMigrations \/ migrations' = migrations
<1> USE DEF databaseVars, project, budgets, history
<1>0. db \in DatabaseRows
  BY DEF Base, TypeInv
<1>1. CASE ReadSchema \/ FireOnRestart \/ ConfigureFails \/ HasuraDone \/ FetchContracts
  BY <1>1 DEF ReadSchema, FireOnRestart, ConfigureFails, HasuraDone, FetchContracts
<1>2. CASE CheckMetadata \/ CreateSource \/ ReplaceTables \/ ApplyCustomization \/ ReplaceQueries
           \/ ApplyCustomMetadata
  BY <1>2 DEF CheckMetadata, CreateSource, ReplaceTables, ApplyCustomization, ReplaceQueries,
     ApplyCustomMetadata, Metadata
<1>3. CASE GenerateSchema
  BY <1>0, <1>3 DEF GenerateSchema, Reindexing, DatabaseRows
<1>4. CASE FireOnReindex
  BY <1>0, <1>4 DEF FireOnReindex, DatabaseRows
<1>5. CASE SaveSchema \/ SaveHash
  BY <1>0, <1>5 DEF SaveSchema, SaveHash, DatabaseRows
<1>6. CASE CheckHash \/ Requested
  BY <1>6 DEF Reindexing
<1>7. CASE CheckFlag
  BY <1>7 DEF CheckFlag, Reindexing
<1>8. CASE SetUpMigrations
  BY <1>0, <1>8 DEF SetUpMigrations, InitializeMigrations, DatabaseRows
<1>9. CASE InitializeDatasources
  BY <1>9 DEF InitializeDatasources, Reindexing
<1>10. CASE SaveMetadataHash
  BY <1>0, <1>10 DEF SaveMetadataHash, DatabaseRows
<1>11. CASE SpawnIndexes
  BY <1>0, <1>11 DEF SpawnIndexes, DatabaseRows
<1>12. CASE LoadIndexState
  BY <1>0, <1>12 DEF LoadIndexState, Reindexing, DatabaseRows
<1>13. CASE AddTemplated
  <2>1. CASE (\E i \in AddedBefore : ~InTemplates(i)) /\ Action("config_modified") # "ignore"
    BY <1>13, <2>1 DEF AddTemplated, Reindexing, Ignores
  <2>2. CASE ~((\E i \in AddedBefore : ~InTemplates(i)) /\ Action("config_modified") # "ignore")
    <3>1. /\ UNCHANGED <<database, policy, version, chain, migrations, since, approved, demanded>>
          /\ db' \in {db, Ignored("config_modified")}
      BY <1>13, <2>2 DEF AddTemplated
    <3>2. Ignoring(Ignored("config_modified"), "config_modified")
      BY IgnoredDatabase DEF Base, Reasons
    <3> QED
      BY <1>13, <3>1, <3>2 DEF Ignoring
  <2> QED
    BY <2>1, <2>2
<1>14. CASE StoreHead
  BY <1>0, <1>14 DEF StoreHead, DatabaseRows, processVars
<1>15. ASSUME NEW i \in Indexes, ProcessLevel(i)
       PROVE  /\ UNCHANGED <<database, policy, version, chain, demanded, migrations>>
              /\ db'.schema = db.schema /\ db'.tables = db.tables /\ db'.hasura = db.hasura
                      /\ db'.head = db.head
  BY <1>0, <1>15 DEF ProcessLevel, DatabaseRows
<1> QED
  BY <1>1, <1>2, <1>3, <1>4, <1>5, <1>6, <1>7, <1>8, <1>9, <1>10, <1>11, <1>12, <1>13, <1>14, <1>15
     DEF Run

LEMMA UserFrame ==
  ASSUME Base, User
  PROVE  /\ UNCHANGED <<database, policy>> /\ pc' = "down"
         /\ Reorg \/ chain' = chain
         /\ EditPart \/ EditTemplate \/ version' = version
         /\ Migrate \/ SchemaApprove \/ SchemaUpgrade \/ SchemaWipe \/ db' = db
         /\ SchemaApprove \/ SchemaUpgrade \/ SchemaWipe \/ UNCHANGED <<since, demanded>>
         /\ \/ SchemaApprove \/ SchemaUpgrade \/ approved' = FALSE
                    \/ UNCHANGED <<approved, version, chain>>
         /\ MakeMigration \/ SchemaWipe \/ migrations' = migrations
         /\ ChangeMetadata \/ metadata' = metadata
         /\ ~Stop => pc = "down"
  BY DEF User, StartCommand, Migrate, MakeMigration, SchemaApprove, SchemaUpgrade, Approve,
     SchemaWipe, EditPart, EditTemplate, Reorg, ChangeMetadata, Edit, Stop, Command, Down,
     databaseVars, project, processVars, budgets, history

LEMMA OtherFrame ==
  ASSUME Base,
         \/ RefreshState \/ RequestOfHook \/ RequestOfHandler \/ RollbackTooDeep
         \/ \E i \in Indexes : RollbackLevel(i)
  PROVE  /\ UNCHANGED <<database, policy, version, chain, metadata, migrations>>
         /\ UNCHANGED <<command, known, demanded, since>>
         /\ pc = "running" /\ approved' \in {approved, FALSE}
         /\ db'.schema = db.schema /\ db'.tables = db.tables /\ db'.hasura = db.hasura
                 /\ db'.head = db.head
<1> USE DEF databaseVars, project, processVars, budgets, history
<1>1. CASE RefreshState
  BY <1>1 DEF RefreshState
<1>2. CASE RequestOfHook \/ RequestOfHandler \/ RollbackTooDeep
  BY <1>2 DEF RequestOfHook, RequestOfHandler, RollbackTooDeep, Request
<1>3. ASSUME NEW i \in Indexes, RollbackLevel(i)
      PROVE  /\ UNCHANGED <<database, policy, version, chain, metadata, migrations>>
             /\ UNCHANGED <<command, known, demanded, since>>
             /\ pc = "running" /\ approved' = FALSE
             /\ db'.schema = db.schema /\ db'.tables = db.tables /\ db'.hasura = db.hasura
                     /\ db'.head = db.head
  <2> db \in DatabaseRows
    BY DEF Base, TypeInv
  <2> QED
    BY <1>3 DEF RollbackLevel, DatabaseRows
<1> QED
  BY <1>1, <1>2, <1>3

-----------------------------------------------------------------------------
(* The tables fit, and so the indexer runs on tables of its models.         *)

LEMMA TablesFitStep ==
  ASSUME Base, TablesFit, [Next]_vars,
         {"half_created", "edit_approved", "migrated_back"} \cap Circumstances = {}
  PROVE  TablesFit'
<1>0. /\ TypeInv /\ StepsFit /\ SchemaFits /\ HashChecked /\ db \in DatabaseRows
      /\ version[Models] \in Versions /\ version[Models] # NoHash
  BY NamesAssumption, FactoryAssumption DEF Base, TypeInv, Parts
<1>1. CASE /\ policy' = policy /\ db'.schema = db.schema /\ db'.tables = db.tables
           /\ version'[Models] = version[Models]
  BY <1>1 DEF TablesFit, Ignores, Action
<1>2. CASE UNCHANGED vars
  BY <1>1, <1>2 DEF vars, databaseVars
<1>3. CASE Reindexing
  <2>1. PICK reason \in Reasons, next \in AllSteps, inHandler \in BOOLEAN :
          /\ GoesOn(reason, next) \/ Raised(reason, inHandler) \/ WipedAll(reason, inHandler)
          /\ UNCHANGED <<policy, version>>
    BY <1>3, ReindexingDoes
  <2>2. CASE GoesOn(reason, next)
    <3>1. CASE reason = "schema_modified"
      BY <2>1, <2>2, <3>1 DEF GoesOn, TablesFit, Ignores, Action
    <3>2. CASE reason # "schema_modified"
      BY <1>1, <2>1, <2>2, <3>2 DEF GoesOn, Ignoring
    <3> QED
      BY <3>1, <3>2
  <2>3. CASE Raised(reason, inHandler)
    <3>1. db.schema # NoRow /\ Flagging(db', reason) =>
            db'.schema # NoRow /\ db'.schema.hash = db.schema.hash /\ db'.tables = db.tables
      BY <1>0, Rows, FlaggedSchema DEF Flagging
    <3> QED
      BY <1>1, <2>1, <2>3, <3>1 DEF Raised, TablesFit, Ignores, Action
  <2>4. CASE WipedAll(reason, inHandler)
    BY <1>1, <2>1, <2>4 DEF WipedAll, Wiping, TablesFit
  <2> QED
    BY <2>1, <2>2, <2>3, <2>4
<1>4. CASE Run /\ ~Reindexing
  <2>1. CASE ~GenerateSchema /\ ~SaveSchema /\ ~SaveHash
    BY <1>1, <1>4, <2>1, RunFrame
  <2>2. CASE GenerateSchema
    <3>1. /\ policy' = policy /\ version' = version /\ db'.schema = db.schema
          /\ db'.tables \in {db.tables, version[Models]}
      BY <1>0, <1>4, <2>2, RunFrame DEF GenerateSchema, Reindexing, DatabaseRows, databaseVars
    <3> QED
      BY <3>1 DEF TablesFit, Ignores, Action
  <2>3. CASE SaveSchema
    <3>1. /\ policy' = policy /\ version' = version /\ db'.tables = db.tables
          /\ db'.schema.hash = version[Models] /\ db.schema = NoRow /\ db.tables # NoHash
      BY <1>0, <2>3 DEF SaveSchema, Row, DatabaseRows, StepsFit, project
    <3> QED
      BY <3>1 DEF TablesFit, Ignores, Action
  <2>4. CASE SaveHash
    <3>1. known \in SchemaRows
      BY <1>0, <2>4 DEF SaveHash, TypeInv
    <3>2. db'.schema = [known EXCEPT !.hash = version[Models]]
      BY <1>0, <2>4 DEF SaveHash, DatabaseRows
    <3>3. /\ policy' = policy /\ version' = version /\ db'.tables = db.tables
          /\ db'.schema.hash = version[Models]
          /\ ~Ignores("schema_modified") => db.schema = known /\ known # NoRow /\ known.hash = NoHash
      BY <1>0, <2>4, <3>1, <3>2 DEF SaveHash, DatabaseRows, SchemaRows, StepsFit, project
    <3> QED
      BY <1>0, <3>3 DEF TablesFit, Ignores, Action, SchemaFits
  <2> QED
    BY <2>1, <2>2, <2>3, <2>4
<1>5. CASE User
  <2>1. CASE EditPart
    <3>1. PICK p \in Parts : MayEdit(p) /\ version' = [version EXCEPT ![p] = 1 - @]
      BY <2>1 DEF EditPart
    <3>2. CASE p = Models
      <4>1. version' [Models] = 1 - version[Models] /\ UNCHANGED <<policy, db>>
        BY <1>0, <2>1, <3>1, <3>2 DEF EditPart, Edit, TypeInv
      <4>2. /\ db.tables # NoHash => db.schema # NoRow
            /\ db.schema # NoRow => db.schema.hash # NoHash
            /\ db.schema # NoRow /\ db.tables = version[Models] => db.tables = db.schema.hash
        BY <3>1, <3>2, NamesAssumption DEF MayEdit, Reset, HasuraPart, Models, Configured
      <4> QED
        BY <1>0, <4>1, <4>2 DEF TablesFit, Ignores, Action
    <3>3. CASE p # Models
      BY <1>0, <1>1, <2>1, <3>1, <3>3 DEF EditPart, Edit, TypeInv
    <3> QED
      BY <3>2, <3>3
  <2>2. CASE EditTemplate
    <3> version'[Models] = version[Models]
      BY <1>0, <2>2, NamesAssumption, FactoryAssumption DEF EditTemplate, TypeInv
    <3> QED
      BY <1>1, <2>2 DEF EditTemplate, Edit
  <2>3. CASE Migrate
    BY <1>0, <2>3 DEF Migrate, DatabaseRows, TablesFit, Ignores, Action, project
  <2>4. CASE SchemaApprove \/ SchemaUpgrade
    <3>1. PICK d \in DatabaseRows : Approve(d)
      BY <1>0, <2>4, ApprovedOne
    <3> QED
      BY <1>0, <3>1, ApproveKeeps DEF Approve, Approving, TablesFit, Ignores, Action, project
  <2>5. CASE SchemaWipe
    BY <1>0, <2>5, WipedDatabase DEF SchemaWipe, Wiping, TablesFit
  <2>6. CASE ~(EditPart \/ EditTemplate \/ Migrate \/ SchemaApprove \/ SchemaUpgrade \/ SchemaWipe)
    BY <1>1, <1>5, <2>6, UserFrame
  <2> QED
    BY <2>1, <2>2, <2>3, <2>4, <2>5, <2>6
<1>6. CASE Next /\ ~Run /\ ~User /\ ~Reindexing
  BY <1>1, <1>6, OtherFrame DEF Next, Reindexing
<1> QED
  BY <1>2, <1>3, <1>4, <1>5, <1>6

(* Before any index has rows on_reindex has run and the tables are those of *)
(* the models, unless models are edited while their tables are half made or *)
(* before an approval is taken up, or back to what was migrated away from.  *)
THEOREM PreparedBefore ==
  ASSUME {"unsaved_row", "half_created", "edit_approved", "migrated_back"} \cap Circumstances = {}
  PROVE  Spec => []PreparedFirst
<1>0. "unsaved_row" \notin Circumstances
  OBVIOUS
<1>1. Init => Base /\ TablesFit
  <2>1. Init => Base
    BY <1>0, BaseInit
  <2>2. Init => TablesFit
    BY DEF Init, DatabaseInit, Empty, TablesFit
  <2> QED
    BY <2>1, <2>2
<1>2. Base /\ TablesFit /\ [Next]_vars => (Base /\ TablesFit)'
  BY BaseStep, TablesFitStep
<1>3. Base /\ TablesFit => PreparedFirst
  BY NamesAssumption, FactoryAssumption DEF Base, TypeInv, Parts, StepsFit, SchemaFits, HashChecked,
     TablesFit, PreparedFirst, Ignores, Checked, IndexSteps, SpawnedSteps, Running, HasuraSteps
<1> QED
  BY <1>1, <1>2, <1>3, PTL DEF Spec

-----------------------------------------------------------------------------
(* What keeps an index where it is while the user is asked for.             *)

LEMMA ResetFitsStep ==
  ASSUME Base, ResetFits, [Next]_vars, "edit_approved" \notin Circumstances
  PROVE  ResetFits'
<1>0. /\ TypeInv /\ StepsFit /\ SchemaFits /\ db \in DatabaseRows
      /\ version[Models] \in Versions /\ version[Models] # NoHash
  BY NamesAssumption, FactoryAssumption DEF Base, TypeInv, Parts
<1>1. CASE /\ policy' = policy /\ db'.schema = db.schema /\ db'.tables = db.tables
           /\ version'[Models] = version[Models]
  BY <1>1 DEF ResetFits, Ignores, Action
<1>2. CASE UNCHANGED vars
  BY <1>1, <1>2 DEF vars, databaseVars
<1>3. CASE Reindexing
  <2>1. PICK reason \in Reasons, next \in AllSteps, inHandler \in BOOLEAN :
          /\ GoesOn(reason, next) \/ Raised(reason, inHandler) \/ WipedAll(reason, inHandler)
          /\ UNCHANGED <<policy, version>>
    BY <1>3, ReindexingDoes
  <2>2. CASE GoesOn(reason, next)
    BY <1>1, <2>1, <2>2 DEF GoesOn, Ignoring, ResetFits, Ignores, Action
  <2>3. CASE Raised(reason, inHandler)
    <3>1. db.schema # NoRow /\ Flagging(db', reason) =>
            db'.schema # NoRow /\ db'.schema.hash = db.schema.hash /\ db'.tables = db.tables
      BY <1>0, Rows, FlaggedSchema DEF Flagging
    <3> QED
      BY <1>1, <2>1, <2>3, <3>1 DEF Raised, ResetFits, Ignores, Action
  <2>4. CASE WipedAll(reason, inHandler)
    BY <1>1, <2>1, <2>4 DEF WipedAll, Wiping, ResetFits
  <2> QED
    BY <2>1, <2>2, <2>3, <2>4
<1>4. CASE Run /\ ~Reindexing
  <2>1. CASE ~GenerateSchema /\ ~SaveSchema /\ ~SaveHash
    BY <1>1, <1>4, <2>1, RunFrame
  <2>2. CASE GenerateSchema
    <3>1. /\ policy' = policy /\ version' = version /\ db'.schema = db.schema
          /\ db.tables # NoHash => db'.tables = db.tables
      BY <1>0, <1>4, <2>2, RunFrame DEF GenerateSchema, Reindexing, DatabaseRows, databaseVars
    <3> QED
      BY <1>0, <3>1 DEF ResetFits, Ignores, Action, SchemaFits
  <2>3. CASE SaveSchema
    BY <1>0, <2>3 DEF SaveSchema, Row, DatabaseRows, ResetFits
  <2>4. CASE SaveHash
    <3>1. known \in SchemaRows /\ db'.schema = [known EXCEPT !.hash = version[Models]]
      BY <1>0, <2>4 DEF SaveHash, TypeInv, DatabaseRows
    <3> QED
      BY <1>0, <3>1 DEF SchemaRows, ResetFits
  <2> QED
    BY <2>1, <2>2, <2>3, <2>4
<1>5. CASE User
  <2>1. CASE EditPart
    <3>1. PICK p \in Parts : MayEdit(p) /\ version' = [version EXCEPT ![p] = 1 - @]
      BY <2>1 DEF EditPart
    <3>2. CASE p = Models
      BY <1>0, <2>1, <3>1, <3>2, NamesAssumption DEF EditPart, Edit, ResetFits, MayEdit, Reset,
         HasuraPart, Models, Configured
    <3>3. CASE p # Models
      BY <1>0, <1>1, <2>1, <3>1, <3>3 DEF EditPart, Edit, TypeInv
    <3> QED
      BY <3>2, <3>3
  <2>2. CASE EditTemplate
    <3> version'[Models] = version[Models]
      BY <1>0, <2>2, NamesAssumption, FactoryAssumption DEF EditTemplate, TypeInv
    <3> QED
      BY <1>1, <2>2 DEF EditTemplate, Edit
  <2>3. CASE Migrate
    BY <1>0, <2>3 DEF Migrate, DatabaseRows, ResetFits, project
  <2>4. CASE SchemaApprove \/ SchemaUpgrade
    <3>1. PICK d \in DatabaseRows : Approve(d)
      BY <1>0, <2>4, ApprovedOne
    <3> QED
      BY <1>0, <3>1, ApproveKeeps DEF Approve, Approving, ResetFits, project
  <2>5. CASE SchemaWipe
    BY <1>0, <2>5, WipedDatabase DEF SchemaWipe, Wiping, ResetFits
  <2>6. CASE ~(EditPart \/ EditTemplate \/ Migrate \/ SchemaApprove \/ SchemaUpgrade \/ SchemaWipe)
    BY <1>1, <1>5, <2>6, UserFrame
  <2> QED
    BY <2>1, <2>2, <2>3, <2>4, <2>5, <2>6
<1>6. CASE Next /\ ~Run /\ ~User /\ ~Reindexing
  BY <1>1, <1>6, OtherFrame DEF Next, Reindexing
<1> QED
  BY <1>2, <1>3, <1>4, <1>5, <1>6

LEMMA NeverEditedStep ==
  ASSUME Base, NeverEdited, [Next]_vars, "ignored_models" \notin Circumstances
  PROVE  NeverEdited'
<1>0. /\ TypeInv /\ StepsFit /\ SchemaFits /\ db \in DatabaseRows
  BY DEF Base, TypeInv
<1>1. CASE UNCHANGED vars
  BY <1>1 DEF vars, databaseVars, NeverEdited, Ignores, Raises, Action
<1>2. policy' = policy
  BY <1>1, ReindexingDoes, RunFrame, UserFrame, OtherFrame DEF Next, Reindexing, vars, databaseVars
<1> SUFFICES ASSUME Raises, Ignores("schema_modified"), Next
             PROVE  NeverEdited'
  BY <1>1, <1>2 DEF NeverEdited, Raises, Ignores, Action
<1>3. /\ version[Models] = 0 /\ db.tables \in {NoHash, 0} /\ migrations \in {NoHash, 0}
      /\ db.schema # NoRow => db.schema.hash \in {NoHash, 0}
  BY DEF NeverEdited
<1>4. CASE /\ version'[Models] = version[Models] /\ migrations' \in {NoHash, 0}
           /\ db'.schema = db.schema /\ db'.tables \in {NoHash, 0}
  BY <1>3, <1>4 DEF NeverEdited
<1>5. CASE Reindexing
  <2>1. PICK reason \in Reasons, next \in AllSteps, inHandler \in BOOLEAN :
          /\ GoesOn(reason, next) \/ Raised(reason, inHandler) \/ WipedAll(reason, inHandler)
          /\ UNCHANGED <<policy, version>>
    BY <1>5, ReindexingDoes
  <2>2. CASE GoesOn(reason, next)
    <3>1. db.schema # NoRow => db'.schema.hash \in {db.schema.hash, NoHash}
      BY <1>0, <2>2, Rows, ResetSchema DEF GoesOn, Ignoring
    <3> QED
      BY <1>3, <2>1, <2>2, <3>1 DEF GoesOn, Ignoring, NeverEdited
  <2>3. CASE Raised(reason, inHandler)
    <3>1. db.schema # NoRow /\ Flagging(db', reason) =>
            db'.schema.hash = db.schema.hash /\ db'.tables = db.tables
      BY <1>0, Rows, FlaggedSchema DEF Flagging
    <3> QED
      BY <1>3, <1>4, <2>1, <2>3, <3>1 DEF Raised, NeverEdited
  <2>4. CASE WipedAll(reason, inHandler)
    BY <1>3, <1>4, <2>1, <2>4 DEF WipedAll, Wiping, NeverEdited
  <2> QED
    BY <2>1, <2>2, <2>3, <2>4
<1>6. CASE Run /\ ~Reindexing
  <2>1. CASE ~GenerateSchema /\ ~SaveSchema /\ ~SaveHash
    <3> migrations' \in {migrations, version[Models]}
      BY <1>6, RunFrame DEF SetUpMigrations, InitializeMigrations
    <3> QED
      BY <1>3, <1>4, <1>6, <2>1, RunFrame
  <2>2. CASE GenerateSchema
    <3> db'.schema = db.schema /\ db'.tables \in {db.tables, version[Models]}
             /\ UNCHANGED <<version, migrations>>
      BY <1>0, <1>6, <2>2, RunFrame DEF GenerateSchema, Reindexing, DatabaseRows, databaseVars
    <3> QED
      BY <1>3, <1>4
  <2>3. CASE SaveSchema
    BY <1>0, <1>3, <2>3 DEF SaveSchema, Row, DatabaseRows, NeverEdited, project
  <2>4. CASE SaveHash
    <3>1. known \in SchemaRows /\ db'.schema = [known EXCEPT !.hash = version[Models]]
      BY <1>0, <2>4 DEF SaveHash, TypeInv, DatabaseRows
    <3>2. db'.tables = db.tables /\ UNCHANGED <<version, migrations>>
      BY <1>0, <2>4 DEF SaveHash, DatabaseRows, project
    <3> QED
      BY <1>3, <3>1, <3>2 DEF SchemaRows, NeverEdited
  <2> QED
    BY <2>1, <2>2, <2>3, <2>4
<1>7. CASE User
  <2>1. CASE EditPart
    <3>1. PICK p \in Parts : MayEdit(p) /\ version' = [version EXCEPT ![p] = 1 - @]
      BY <2>1 DEF EditPart
    <3>2. p # Models
      BY <3>1, NamesAssumption DEF MayEdit, Models, HasuraPart, Configured, Ignores
    <3> QED
      BY <1>0, <1>3, <1>4, <2>1, <3>1, <3>2 DEF EditPart, Edit, TypeInv
  <2>2. CASE EditTemplate
    <3> version'[Models] = version[Models]
      BY <1>0, <2>2, NamesAssumption, FactoryAssumption DEF EditTemplate, TypeInv
    <3> QED
      BY <1>3, <1>4, <2>2 DEF EditTemplate, Edit
  <2>3. CASE Migrate
    BY <1>0, <1>3, <2>3 DEF Migrate, DatabaseRows, NeverEdited, project
  <2>4. CASE SchemaApprove \/ SchemaUpgrade
    <3>1. PICK d \in DatabaseRows :
            Approve(d) /\ (d.tables = db.tables \/ d.tables = migrations)
      BY <1>0, <2>4, ApprovedOne
    <3> QED
      BY <1>0, <1>3, <3>1, ApproveKeeps DEF Approve, Approving, NeverEdited, project
  <2>5. CASE SchemaWipe
    BY <1>0, <1>3, <2>5, WipedDatabase DEF SchemaWipe, Wiping, NeverEdited, MigrationsWiped, project
  <2>6. CASE MakeMigration
    BY <1>3, <2>6 DEF MakeMigration, SchemaMigrate, NeverEdited, databaseVars
  <2>7. CASE ~(EditPart \/ EditTemplate \/ Migrate \/ SchemaApprove \/ SchemaUpgrade \/ SchemaWipe \/ MakeMigration)
    BY <1>3, <1>4, <1>7, <2>7, UserFrame
  <2> QED
    BY <2>1, <2>2, <2>3, <2>4, <2>5, <2>6, <2>7
<1>8. CASE Next /\ ~Run /\ ~User /\ ~Reindexing
  BY <1>3, <1>4, <1>8, OtherFrame DEF Next, Reindexing
<1> QED
  BY <1>5, <1>6, <1>7, <1>8

LEMMA DemandFitsStep ==
  ASSUME Base, ResetFits, NeverEdited, DemandFits, [Next]_vars, "in_handler" \notin Circumstances
  PROVE  DemandFits'
<1>0. /\ TypeInv /\ StepsFit /\ SchemaFits /\ HashChecked /\ db \in DatabaseRows
      /\ version[Models] \in Versions /\ version[Models] # NoHash
  BY NamesAssumption, FactoryAssumption DEF Base, TypeInv, Parts
<1> DEFINE Told(d, p, c) ==
             /\ d.schema # NoRow /\ d.schema.reindex # NoReason /\ d.schema.hash # NoHash
             /\ p \in {"down", "generate", "schema"} \cup HasuraSteps
             /\ p \in HasuraSteps => c = "configure"
<1>1. CASE UNCHANGED vars
  BY <1>1 DEF vars, databaseVars, processVars, history, DemandFits, Raises, Action
<1>2. policy' = policy
  BY <1>1, ReindexingDoes, RunFrame, UserFrame, OtherFrame DEF Next, Reindexing, vars, databaseVars
<1>3. demanded => Raises /\ Told(db, pc, command)
  BY <1>0, Rows DEF DemandFits, SchemaFits, Raises, SchemaRows
<1>4. CASE pc' = "down" /\ (demanded' => Told(db', pc', command'))
  BY <1>4 DEF DemandFits, Checked, HasuraSteps, IndexSteps, SpawnedSteps, Running, Requests
<1>5. Raises' <=> Raises
  BY <1>2 DEF Raises, Action
<1>6. CASE Reindexing
  <2>1. PICK reason \in Reasons, next \in AllSteps, inHandler \in BOOLEAN :
          /\ From(reason, next, inHandler)
          /\ GoesOn(reason, next) \/ Raised(reason, inHandler) \/ WipedAll(reason, inHandler)
          /\ UNCHANGED <<policy, version, command>>
    BY <1>6, ReindexingDoes
  <2>2. CASE GoesOn(reason, next)
    <3>1. CASE pc \in Checked
      <4>1. ~demanded /\ command # "configure" /\ reason # "schema_modified" /\ next \in Checked
            /\ next # "asked_by_handler"
        BY <1>0, <1>3, <2>1, <3>1 DEF From, StepsFit, Checked, HasuraSteps, IndexSteps,
           SpawnedSteps, Running, Requests
      <4>2. db'.schema = db.schema /\ pc' = next /\ demanded' = demanded
        BY <2>2, <4>1 DEF GoesOn, Ignoring
      <4> QED
        BY <1>2, <1>5, <2>1, <3>1, <4>1, <4>2 DEF DemandFits, Checked, HasuraSteps, IndexSteps,
           SpawnedSteps, Running, Requests
    <3>2. CASE pc \notin Checked
      <4>1. ~Raises
        <5> SUFFICES ASSUME Raises PROVE FALSE
          OBVIOUS
        <5>1. pc = "schema" => known = db.schema /\ db.schema \in SchemaRows
          BY <1>0, <2>1, <3>2, NamesAssumption DEF DemandFits, From, Checked, IndexSteps,
             SpawnedSteps, Running
        <5>2. ~(pc = "generate" /\ db.tables \notin {NoHash, version[Models]} /\ reason = "schema_modified")
          BY <2>2 DEF GoesOn, NeverEdited, Ignores
        <5>3. ~(pc = "schema" /\ known.hash \notin {NoHash, version[Models]} /\ reason = "schema_modified")
          BY <2>2, <5>1, NamesAssumption DEF GoesOn, NeverEdited, Ignores
        <5>4. pc = "schema" /\ reason = known.reindex /\ reason # NoReason
          BY <2>1, <2>2, <3>2, <5>2, <5>3 DEF From, GoesOn, Ignores, Checked, IndexSteps, SpawnedSteps,
             Running
        <5> QED
          BY <1>0, <2>2, <5>1, <5>4, NamesAssumption DEF SchemaFits, GoesOn
      <4> QED
        BY <1>3, <1>5, <2>1, <2>2, <4>1 DEF From, GoesOn, DemandFits
    <3> QED
      BY <3>1, <3>2
  <2>3. CASE Raised(reason, inHandler)
    <3>1. Raises
      BY <2>1, <2>3 DEF Raised, Raises
    <3>2. ~inHandler
      BY <2>1, <2>3 DEF From, Raised, DemandFits
    <3>3. CASE db.schema = NoRow
      BY <1>3, <1>4, <2>3, <3>2, <3>3 DEF Raised, Stopped
    <3>4. CASE db.schema # NoRow
      <4>1. db.schema \in SchemaRows /\ Flagging(db', reason)
        BY <1>0, <2>3, <3>2, <3>4, Rows DEF Raised
      <4>2. db'.schema # NoRow /\ db'.schema.reindex # NoReason /\ db'.schema.hash = db.schema.hash
        <5> reason # NoReason
          BY DEF Reasons, NoReason
        <5> QED
          BY <4>1, FlaggedSchema, NamesAssumption DEF Flagging
      <4>3. db.schema.hash # NoHash
        <5>1. CASE pc = "generate"
          BY <2>1, <2>3, <3>4, <5>1 DEF From, Raised, ResetFits, Ignores, Requests
        <5>2. CASE pc = "schema"
          BY <1>0, <2>1, <3>1, <5>2 DEF From, DemandFits, Requests
        <5>3. CASE pc \notin {"generate", "schema"}
          <6> pc # "save_schema"
            BY <1>0, <3>4 DEF StepsFit
          <6> pc \in Checked /\ command # "configure"
            BY <1>0, <2>1, <5>3 DEF From, StepsFit, Checked, HasuraSteps, IndexSteps, SpawnedSteps,
               Running, Requests
          <6> QED
            BY <1>0, <3>1 DEF DemandFits
        <5> QED
          BY <5>1, <5>2, <5>3
      <4> QED
        BY <1>4, <2>3, <4>2, <4>3 DEF Raised, Stopped, HasuraSteps
    <3> QED
      BY <3>3, <3>4
  <2>4. CASE WipedAll(reason, inHandler)
    BY <1>3, <1>4, <2>1, <2>4 DEF WipedAll, Stopped, HasuraSteps
  <2> QED
    BY <2>1, <2>2, <2>3, <2>4
<1>7. CASE Run /\ ~Reindexing
  <2>0. UNCHANGED <<policy, version, demanded>>
    BY <1>7, RunFrame
  <2> USE DEF databaseVars, project, inventoryVars, budgets, history, Goto, Checked, HasuraSteps,
              IndexSteps, SpawnedSteps, Running, Requests
  <2>1. CASE ReadSchema
    BY <1>0, <1>3, <2>0, <2>1 DEF ReadSchema, DemandFits
  <2>2. CASE GenerateSchema
    <3> db'.schema = db.schema /\ known' = known /\ pc' = "schema" /\ pc = "generate"
      BY <1>0, <1>7, <2>2 DEF GenerateSchema, Reindexing, DatabaseRows
    <3> QED
      BY <1>0, <1>3, <2>0, <2>2 DEF DemandFits, StepsFit
  <2>3. CASE FireOnReindex
    BY <1>0, <1>3, <2>0, <2>3 DEF FireOnReindex, DemandFits, StepsFit
  <2>4. CASE SaveSchema
    BY <1>0, <1>3, <2>0, <2>4 DEF SaveSchema, Row, DatabaseRows, DemandFits, StepsFit
  <2>5. CASE SaveHash
    <3>1. known \in SchemaRows /\ db'.schema = [known EXCEPT !.hash = version[Models]]
      BY <1>0, <2>5 DEF SaveHash, TypeInv, DatabaseRows
    <3>2. ~demanded
      BY <1>3, <2>5 DEF SaveHash, DemandFits
    <3> QED
      BY <1>5, <2>0, <2>5, <3>1, <3>2 DEF SaveHash, SchemaRows, DemandFits
  <2>6. CASE CheckFlag
    <3>1. known.reindex = NoReason /\ pc' = "restart" /\ db' = db /\ command' = command
      BY <1>7, <2>6 DEF CheckFlag, Reindexing
    <3>2. Raises => db.schema.hash = version[Models] /\ ~demanded
      BY <1>3, <2>6, <3>1 DEF CheckFlag, DemandFits
    <3> QED
      BY <1>3, <1>5, <2>0, <3>1, <3>2 DEF DemandFits
  <2>7. CASE CheckMetadata \/ CreateSource \/ ReplaceTables \/ ApplyCustomization \/ ReplaceQueries
             \/ ApplyCustomMetadata
    BY <1>0, <1>3, <1>5, <2>0, <2>7 DEF CheckMetadata, CreateSource, ReplaceTables,
       ApplyCustomization, ReplaceQueries, ApplyCustomMetadata, Metadata, DemandFits, StepsFit
  <2>8. CASE ConfigureFails
    BY <1>3, <1>4, <2>8 DEF ConfigureFails
  <2>9. CASE SaveMetadataHash
    <3> db'.schema = db.schema
      BY <1>7, <2>9, RunFrame DEF SaveMetadataHash
    <3> QED
      BY <1>0, <1>3, <1>5, <2>0, <2>9 DEF SaveMetadataHash, DemandFits, StepsFit
  <2>10. CASE HasuraDone
    BY <1>0, <1>3, <1>5, <2>0, <2>10 DEF HasuraDone, Down, DemandFits, StepsFit
  <2>11. CASE FireOnRestart \/ SetUpMigrations \/ InitializeDatasources \/ SpawnIndexes
                   \/ FetchContracts
              \/ LoadIndexState \/ AddTemplated \/ StoreHead \/ \E i \in Indexes : ProcessLevel(i)
    <3>1. /\ pc \in Checked \ HasuraSteps /\ command # "configure" /\ ~demanded
          /\ pc' \in {"down"} \cup (Checked \ {"asked_by_handler"})
      <4>1. pc \in Checked \ HasuraSteps
        BY <2>11 DEF FireOnRestart, SetUpMigrations, InitializeDatasources, SpawnIndexes,
           FetchContracts, LoadIndexState, AddTemplated, StoreHead, ProcessLevel
      <4>2. pc' \in {"down"} \cup (Checked \ {"asked_by_handler"})
        BY <1>7, <2>11 DEF FireOnRestart, SetUpMigrations, InitializeDatasources, SpawnIndexes,
           FetchContracts, LoadIndexState, AddTemplated, StoreHead, ProcessLevel, Down, processVars,
           Reindexing, Reindex, Ignores
      <4> QED
        BY <1>0, <1>3, <4>1, <4>2 DEF StepsFit
    <3>2. db'.schema = db.schema
      BY <1>7, <2>11, RunFrame DEF FireOnRestart, SetUpMigrations, InitializeDatasources,
         SpawnIndexes, FetchContracts, LoadIndexState, AddTemplated, StoreHead, ProcessLevel,
         SaveSchema, SaveHash
    <3> QED
      BY <1>5, <2>0, <3>1, <3>2 DEF DemandFits
  <2> QED
    BY <1>7, <2>1, <2>2, <2>3, <2>4, <2>5, <2>6, <2>7, <2>8, <2>9, <2>10, <2>11 DEF Run, Reindexing
<1>8. CASE User
  <2>1. CASE SchemaApprove \/ SchemaUpgrade \/ SchemaWipe
    BY <1>4, <1>8, <2>1, UserFrame DEF SchemaApprove, SchemaUpgrade, Approve, SchemaWipe
  <2>2. CASE ~(SchemaApprove \/ SchemaUpgrade \/ SchemaWipe)
    <3>1. db'.schema = db.schema /\ pc' = "down" /\ demanded' = demanded
      BY <1>0, <1>8, <2>2, UserFrame DEF Migrate, DatabaseRows
    <3> QED
      BY <1>3, <1>4, <3>1 DEF HasuraSteps
  <2> QED
    BY <2>1, <2>2
<1>9. CASE Next /\ ~Run /\ ~User /\ ~Reindexing
  <2>1. /\ UNCHANGED <<policy, version, command, demanded>> /\ db'.schema = db.schema
        /\ pc = "running" /\ ~demanded /\ command # "configure"
    BY <1>0, <1>3, <1>9, OtherFrame DEF Next, Reindexing, StepsFit, Checked, HasuraSteps, IndexSteps,
       SpawnedSteps, Running, Requests
  <2>2. pc' \in {"running"} \cup Requests
             /\ (pc' = "asked_by_handler" => Action("manual") # "exception")
    BY <1>9 DEF Next, Reindexing, RefreshState, RollbackLevel, RequestOfHook, RequestOfHandler, RollbackTooDeep,
       Request, Goto, Requests
  <2> QED
    BY <1>2, <1>5, <2>1, <2>2 DEF DemandFits, Action, Checked, IndexSteps, SpawnedSteps, Running,
       Requests
<1> QED
  BY <1>1, <1>6, <1>7, <1>8, <1>9

(* An index does not move once the user was told that reindexing is         *)
(* required, unless a handler demanded it inside its own transaction, or    *)
(* models are edited while that is ignored or before an approval is taken   *)
(* up.                                                                      *)
THEOREM RefusesFirst ==
  ASSUME {"unsaved_row", "in_handler", "ignored_models", "edit_approved"} \cap Circumstances = {}
  PROVE  Spec => RefusesUntilSettled
<1>0. "unsaved_row" \notin Circumstances
  OBVIOUS
<1> DEFINE Inv == Base /\ ResetFits /\ NeverEdited /\ DemandFits
<1>1. Init => Inv
  <2>1. Init => Base
    BY <1>0, BaseInit
  <2>2. Init => ResetFits /\ NeverEdited /\ DemandFits
    BY NamesAssumption DEF Init, DatabaseInit, MigrationsInit, Empty, ResetFits, NeverEdited,
       DemandFits, Checked, HasuraSteps, IndexSteps, SpawnedSteps, Running, Requests, Parts
  <2> QED
    BY <2>1, <2>2
<1>2. Inv /\ [Next]_vars => Inv'
  BY BaseStep, ResetFitsStep, NeverEditedStep, DemandFitsStep
<1>3. Inv => [demanded => \A i \in Indexes : state'[i] # state[i] => pc # "running"]_vars
  BY DEF DemandFits, HasuraSteps
<1> QED
  BY <1>1, <1>2, <1>3, PTL DEF Spec, RefusesUntilSettled

-----------------------------------------------------------------------------
(* What was approved is not refused.                                        *)

LEMMA ApprovalFitsStep ==
  ASSUME Base, ApprovalFits, [Next]_vars, {"template_removed", "reorg_approved"} \cap Circumstances = {}
  PROVE  ApprovalFits'
<1>0. /\ TypeInv /\ RowsFit /\ StepsFit /\ SchemaFits /\ db \in DatabaseRows
      /\ version[Models] \in Versions /\ version[Models] # NoHash
  BY NamesAssumption, FactoryAssumption DEF Base, TypeInv, Parts
<1>1. CASE UNCHANGED vars
  BY <1>1 DEF vars, databaseVars, processVars, history, ApprovalFits, AddedBefore, InTemplates
<1>2. CASE ~approved'
  BY <1>2 DEF ApprovalFits
<1> DEFINE Same == /\ approved /\ ~demanded' /\ pc' \notin Requests /\ db'.tables = db.tables
                   /\ db'.schema # NoRow /\ db'.schema.hash \in {db.schema.hash, version[Models]}
                   /\ db'.schema.reindex = db.schema.reindex
                   /\ pc' = "schema" => known' = db'.schema
                   /\ db'.head \in {db.head, chain} /\ UNCHANGED <<version, chain>>
                   /\ \A i \in Configured : db'.index[i] # NoRow
                           /\ (db.index[i] # NoRow => db'.index[i] # db.index[i])
                        => db'.index[i].hash \in {NoHash, version[i]}
                   /\ \A i \in Templated : db'.index[i] # NoRow => db.index[i] # NoRow
<1>3. CASE Same
  BY <1>3 DEF ApprovalFits, AddedBefore, InTemplates
<1>4. CASE Reindexing
  <2>1. approved' = approved
    BY <1>4, ReindexingDoes
  <2>2. ~approved
    BY <1>0, <1>4, ReindexingDoes DEF From, ApprovalFits, StepsFit, RowsFit, SpawnedSteps, Running
  <2> QED
    BY <1>2, <2>1, <2>2
<1>5. CASE Run /\ ~Reindexing
  <2> SUFFICES ASSUME approved', approved PROVE Same
    <3> approved' => approved
      BY <1>5, RunFrame DEF ProcessLevel
    <3> QED
      BY <1>2, <1>3
  <2>0. ApprovalFits /\ approved
    OBVIOUS
  <2>1. /\ ~demanded' /\ UNCHANGED <<version, chain>>
        /\ db'.head \in {db.head, chain}
    BY <1>0, <1>5, <2>0, RunFrame DEF ApprovalFits, StoreHead, DatabaseRows
  <2>2. db'.tables = db.tables
    BY <1>0, <1>5, <2>0, RunFrame DEF ApprovalFits, GenerateSchema, Reindexing
  <2>3. /\ db'.schema # NoRow /\ db'.schema.hash \in {db.schema.hash, version[Models]}
        /\ db'.schema.reindex = db.schema.reindex
    <3>1. CASE SaveHash
      <4>1. known = db.schema /\ known \in SchemaRows
                 /\ db'.schema = [known EXCEPT !.hash = version[Models]]
        BY <1>0, <2>0, <3>1 DEF SaveHash, ApprovalFits, TypeInv, DatabaseRows
      <4> QED
        BY <1>0, <4>1, NamesAssumption DEF SchemaRows, Hashes
    <3>2. ~SaveSchema
      BY <1>0, <2>0 DEF SaveSchema, ApprovalFits, StepsFit
    <3> QED
      BY <1>5, <2>0, <3>1, <3>2, RunFrame DEF ApprovalFits
  <2>4. pc' \notin Requests /\ (pc' = "schema" => known' = db'.schema)
    <3>1. CASE GenerateSchema
      BY <1>0, <1>5, <3>1 DEF GenerateSchema, Reindexing, StepsFit, Goto, inventoryVars,
         DatabaseRows, Requests
    <3>2. CASE ~GenerateSchema
      <4> pc' # "schema" /\ pc' \notin Requests
        BY <1>5, <2>0, <3>2 DEF Run, ReadSchema, FireOnReindex, SaveSchema, SaveHash, CheckFlag,
           FireOnRestart, SetUpMigrations, InitializeDatasources, CheckMetadata, ConfigureFails,
           CreateSource, ReplaceTables, ApplyCustomization, ReplaceQueries, ApplyCustomMetadata,
           SaveMetadataHash, HasuraDone, SpawnIndexes, FetchContracts, LoadIndexState, AddTemplated,
           StoreHead, ProcessLevel, Metadata, Goto, Down, Requests, Reindexing, Ignores,
           ApprovalFits, processVars
      <4> QED
        OBVIOUS
    <3> QED
      BY <3>1, <3>2
  <2>5. /\ \A i \in Configured : db'.index[i] # NoRow
                /\ (db.index[i] # NoRow => db'.index[i] # db.index[i])
             => db'.index[i].hash \in {NoHash, version[i]}
        /\ \A i \in Templated : db'.index[i] # NoRow => db.index[i] # NoRow
    <3>1. CASE SpawnIndexes
      <4>1. \A i \in Indexes : db'.index[i] = IF i \in Configured THEN RowOf(i) ELSE db.index[i]
        BY <1>0, <3>1 DEF SpawnIndexes, DatabaseRows
      <4>2. \A i \in Configured : RowOf(i) = db.index[i] \/ RowOf(i).hash = version[i]
        BY DEF RowOf, NewRow
      <4> QED
        BY <4>1, <4>2, FactoryAssumption DEF Configured, RowOf
    <3>2. CASE LoadIndexState
      <4>1. \A i \in Indexes :
              db'.index[i] = IF i \in Configured THEN [db.index[i] EXCEPT !.hash = version[i]]
                   ELSE db.index[i]
        <5> DEFINE rows == [i \in Indexes |-> IF i \in Configured THEN [db.index[i] EXCEPT !.hash = version[i]]
                                                                  ELSE db.index[i]]
        <5>1. db' = [db EXCEPT !.index = rows]
          BY <1>5, <3>2, Zenon DEF LoadIndexState, Reindexing
        <5>2. db'.index = rows
          <6> HIDE DEF rows
          <6> QED
            BY <1>0, <5>1 DEF DatabaseRows
        <5> QED
          BY <5>2
      <4>2. ASSUME NEW i \in Configured PROVE [db.index[i] EXCEPT !.hash = version[i]].hash = version[i]
        <5> db.index[i] \in IndexRows /\ version[i] \in Hashes
          BY <1>0, <3>2, Rows, FactoryAssumption DEF LoadIndexState, RowsFit, SpawnedSteps, Running,
             Configured, TypeInv, Parts
        <5> QED
          BY HashedRow
      <4> QED
        BY <4>1, <4>2, FactoryAssumption DEF Configured
    <3>3. CASE AddTemplated
      <4>1. db' \in {db, Ignored("config_modified")}
        BY <1>5, <3>3 DEF AddTemplated, Reindexing, Ignores, databaseVars
      <4>2. \A i \in Indexes : db'.index[i] \in {db.index[i], ResetOf(db.index[i])}
        BY <1>0, <4>1, IgnoredDatabase DEF Ignoring, Reasons
      <4>3. \A i \in Indexes : db.index[i] \in IndexRows \cup {NoRow}
        BY <1>0, Rows
      <4> QED
        BY <4>2, <4>3, ResetRow, FactoryAssumption DEF Configured
    <3>4. ASSUME NEW i \in Indexes, ProcessLevel(i) PROVE db'.index = db.index
      BY <3>4 DEF ProcessLevel
    <3> QED
      BY <1>5, <3>1, <3>2, <3>3, <3>4, RunFrame
  <2> QED
    BY <2>0, <2>1, <2>2, <2>3, <2>4, <2>5
<1>6. CASE User
  <2>1. CASE SchemaApprove \/ SchemaUpgrade
    <3>1. PICK d \in DatabaseRows : Approve(d) /\ d.index = db.index
      BY <1>0, <2>1, ApprovedOne
    <3>2. /\ \A i \in Indexes : db'.index[i] = ResetOf(db.index[i])
                  /\ db.index[i] \in IndexRows \cup {NoRow}
          /\ UNCHANGED <<version, chain, pc>>
      <4>1. db'.index = [i \in Indexes |-> ResetOf(db.index[i])]
        BY <1>0, <3>1, ApproveKeeps DEF Approving
      <4> QED
        BY <1>0, <3>1, <4>1, Rows DEF Approve, project, processVars
    <3>3. /\ \A i \in Configured : db'.index[i] # NoRow => db'.index[i].hash = NoHash
          /\ \A i \in Templated : db'.index[i] # NoRow <=> db.index[i] # NoRow
      BY <3>2, ResetRow, FactoryAssumption DEF Configured
    <3>4. /\ \A i \in Templated : db.index[i] # NoRow => version[i] # NoHash
          /\ d.head \in {NoHash, chain} /\ ~demanded' /\ pc = "down"
      BY <3>1 DEF Approve, AddedBefore, InTemplates, Command
    <3>5. approved' => db'.tables = version[Models]
      BY <1>0, <3>1, ApproveKeeps DEF Approving, Approve
    <3> QED
      BY <1>0, <3>1, <3>2, <3>3, <3>4, <3>5, ApproveKeeps DEF Approving, ApprovalFits, AddedBefore,
         InTemplates, Requests
  <2>2. CASE ~(SchemaApprove \/ SchemaUpgrade)
    <3> SUFFICES ASSUME approved' PROVE Same
      BY <1>2, <1>3
    <3>1. approved /\ UNCHANGED <<version, chain, demanded>> /\ pc' = "down" /\ db' = db
      BY <1>6, <2>2, UserFrame DEF SchemaWipe, Migrate, ApprovalFits, history
    <3> QED
      BY <3>1 DEF ApprovalFits, Requests
  <2> QED
    BY <2>1, <2>2
<1>7. CASE Next /\ ~Run /\ ~User /\ ~Reindexing
  <2> SUFFICES ASSUME approved', approved PROVE Same
    BY <1>2, <1>3, <1>7, OtherFrame DEF Next, Reindexing
  <2>1. RefreshState
    BY <1>7 DEF Next, Reindexing, RollbackLevel, RequestOfHook, RequestOfHandler, RollbackTooDeep, Request
  <2> QED
    BY <2>1 DEF RefreshState, databaseVars, history, ApprovalFits, Requests
<1> QED
  BY <1>1, <1>4, <1>5, <1>6, <1>7

(* An approval is not taken back as long as nothing changes, unless it was  *)
(* given with a template missing or after a reorg during an outage.         *)
THEOREM ApprovalKept ==
  ASSUME {"unsaved_row", "template_removed", "reorg_approved"} \cap Circumstances = {}
  PROVE  Spec => []ApprovalHolds
<1>0. "unsaved_row" \notin Circumstances
  OBVIOUS
<1>1. Init => Base /\ ApprovalFits
  BY <1>0, BaseInit DEF Init, ApprovalFits
<1>2. Base /\ ApprovalFits /\ [Next]_vars => (Base /\ ApprovalFits)'
  BY BaseStep, ApprovalFitsStep
<1>3. Base /\ ApprovalFits => ApprovalHolds
  BY DEF ApprovalFits, ApprovalHolds
<1> QED
  BY <1>1, <1>2, <1>3, PTL DEF Spec

-----------------------------------------------------------------------------
(* What rows are built from, by the hashes of models and of indexes.        *)

LEMMA SinceModelsStep ==
  ASSUME Base, SinceModels, [Next]_vars
  PROVE  SinceModels'
<1>0. /\ TypeInv /\ StepsFit /\ HashChecked /\ db \in DatabaseRows /\ Models \in Parts
  BY DEF Base, TypeInv, Parts
<1>1. CASE db'.schema = db.schema /\ UNCHANGED <<policy, since>>
  BY <1>1 DEF SinceModels, Ignores, Action
<1>2. CASE UNCHANGED vars
  BY <1>1, <1>2 DEF vars, databaseVars, history
<1>3. CASE Reindexing
  <2>1. PICK reason \in Reasons, next \in AllSteps, inHandler \in BOOLEAN :
          /\ GoesOn(reason, next) \/ Raised(reason, inHandler) \/ WipedAll(reason, inHandler)
          /\ UNCHANGED policy
    BY <1>3, ReindexingDoes
  <2>2. CASE GoesOn(reason, next)
    BY <1>1, <2>1, <2>2 DEF GoesOn, Ignoring, SinceModels, Ignores, Action
  <2>3. CASE Raised(reason, inHandler)
    <3>1. db.schema # NoRow /\ Flagging(db', reason) => db'.schema # NoRow
               /\ db'.schema.hash = db.schema.hash
      BY <1>0, Rows, FlaggedSchema DEF Flagging
    <3> QED
      BY <1>1, <2>1, <2>3, <3>1 DEF Raised, SinceModels, Ignores, Action
  <2>4. CASE WipedAll(reason, inHandler)
    BY <1>0, <1>1, <2>1, <2>4 DEF WipedAll, SinceModels
  <2> QED
    BY <2>1, <2>2, <2>3, <2>4
<1>4. CASE Run /\ ~Reindexing
  <2>1. CASE ~SaveSchema /\ ~SaveHash /\ ~(\E i \in Indexes : ProcessLevel(i))
    BY <1>1, <1>4, <2>1, RunFrame
  <2>2. CASE SaveSchema
    BY <1>0, <2>2 DEF SaveSchema, SinceModels, StepsFit, Ignores, Action, project, history
  <2>3. CASE SaveHash
    BY <1>0, <2>3 DEF SaveHash, SinceModels, StepsFit, Ignores, Action, project, history
  <2>4. ASSUME NEW i \in Indexes, ProcessLevel(i) PROVE SinceModels'
    <3>1. /\ UNCHANGED policy /\ db'.schema = db.schema
          /\ since' = since \/ since'[Models] = IF since[Models] = NoHash THEN version[Models]
                  ELSE since[Models]
      BY <1>0, <2>4 DEF ProcessLevel, DatabaseRows, project
    <3>2. ~Ignores("schema_modified") => db.schema # NoRow /\ db.schema.hash = version[Models]
      BY <1>0, <2>4 DEF ProcessLevel, HashChecked, StepsFit, Checked, IndexSteps, SpawnedSteps,
         Running, HasuraSteps
    <3> QED
      BY <3>1, <3>2 DEF SinceModels, Ignores, Action
  <2> QED
    BY <2>1, <2>2, <2>3, <2>4
<1>5. CASE User
  <2>1. CASE SchemaApprove \/ SchemaUpgrade \/ SchemaWipe
    <3> since'[Models] = NoHash
      BY <1>0, <2>1 DEF SchemaApprove, SchemaUpgrade, Approve, SchemaWipe, Nothing
    <3> QED
      BY DEF SinceModels
  <2>2. CASE ~(SchemaApprove \/ SchemaUpgrade \/ SchemaWipe)
    BY <1>0, <1>1, <1>5, <2>2, UserFrame DEF Migrate, DatabaseRows
  <2> QED
    BY <2>1, <2>2
<1>6. CASE Next /\ ~Run /\ ~User /\ ~Reindexing
  BY <1>1, <1>6, OtherFrame DEF Next, Reindexing
<1> QED
  BY <1>2, <1>3, <1>4, <1>5, <1>6

LEMMA SinceIndexStep ==
  ASSUME Base, ~Ignores("config_modified"), \A i \in Indexes : SinceIndex(i)
              /\ StateFits(i), [Next]_vars,
         {"edit_approved", "edit_template"} \cap Circumstances = {}
  PROVE  (\A i \in Indexes : SinceIndex(i) /\ StateFits(i))'
<1>0. /\ TypeInv /\ RowsFit /\ db \in DatabaseRows /\ Indexes \subseteq Parts
              /\ Templated \subseteq Indexes
      /\ Configured = Indexes \ Templated
      /\ \A i \in Configured : version[i] \in Versions /\ version[i] # NoHash
  BY NamesAssumption, FactoryAssumption DEF Base, TypeInv, Parts, Configured
<1> USE DEF Running
<1> DEFINE Moved == \/ state' = state /\ (pc' = "down" => pc = "down")
                    \/ state' = [i \in Indexes |-> NoRow] /\ pc' = "down"
           Quiet == Moved /\ (pc' \in SpawnedSteps => pc' = pc \/ {pc, pc'} \subseteq Running)
<1>1. CASE db'.index = db.index /\ UNCHANGED <<since, version>> /\ Quiet
  BY <1>1 DEF SinceIndex, StateFits, SpawnedSteps, Running, Requests
<1>2. CASE UNCHANGED vars
  BY <1>1, <1>2 DEF vars, databaseVars, processVars, inventoryVars, history
<1>3. CASE Reindexing
  <2>1. PICK reason \in Reasons, next \in AllSteps, inHandler \in BOOLEAN :
          /\ From(reason, next, inHandler)
          /\ GoesOn(reason, next) \/ Raised(reason, inHandler) \/ WipedAll(reason, inHandler)
          /\ UNCHANGED <<policy, version>>
    BY <1>3, ReindexingDoes
  <2>2. CASE GoesOn(reason, next)
    <3>1. reason # "config_modified"
      BY <2>2 DEF GoesOn, Ignores
    <3>2. db'.index = db.index /\ UNCHANGED <<since, state>> /\ pc' = next
      BY <2>2, <3>1 DEF GoesOn, Ignoring
    <3>3. next # "down" /\ (next \in SpawnedSteps => {pc, next} \subseteq Running)
      BY <2>1, <3>1 DEF From, SpawnedSteps, Running, Requests
    <3> QED
      BY <1>1, <2>1, <3>2, <3>3
  <2>3. CASE Raised(reason, inHandler)
    <3> db'.index = db.index
      BY <2>3 DEF Raised, Flagging
    <3> QED
      BY <1>1, <2>1, <2>3 DEF Raised, Stopped, SpawnedSteps, Running, Requests
  <2>4. CASE WipedAll(reason, inHandler)
    <3>1. CASE UNCHANGED <<db, since>>
      BY <1>1, <2>1, <2>4, <3>1 DEF WipedAll, Stopped, SpawnedSteps, Running, Requests
    <3>2. CASE since' = [p \in Parts |-> NoHash]
      BY <1>0, <2>4, <3>2 DEF WipedAll, Stopped, SpawnedSteps, Running, Requests, SinceIndex,
         StateFits
    <3> QED
      BY <2>4, <3>1, <3>2 DEF WipedAll
  <2> QED
    BY <2>1, <2>2, <2>3, <2>4
<1>4. CASE Run /\ ~Reindexing
  <2>0. version' = version
    BY <1>4, RunFrame
  <2>1. CASE ~(SpawnIndexes \/ FetchContracts \/ LoadIndexState \/ AddTemplated \/ \E i \in Indexes : ProcessLevel(i))
    <3>1. db'.index = db.index /\ UNCHANGED <<since, version>>
      BY <1>4, <2>1, RunFrame
    <3>2. Quiet
      BY <1>4, <2>1 DEF Run, ReadSchema, GenerateSchema, FireOnReindex, SaveSchema, SaveHash,
         CheckFlag, FireOnRestart, SetUpMigrations, InitializeDatasources, CheckMetadata,
         ConfigureFails, CreateSource, ReplaceTables, ApplyCustomization, ReplaceQueries,
         ApplyCustomMetadata, SaveMetadataHash, HasuraDone, StoreHead, Metadata, Goto, Down,
         Requests, SpawnedSteps, Running, Reindexing, inventoryVars, processVars
    <3> QED
      BY <1>1, <3>1, <3>2
  <2>2. CASE SpawnIndexes
    <3>1. /\ \A i \in Indexes : db'.index[i] = IF i \in Configured THEN RowOf(i) ELSE db.index[i]
          /\ \A i \in Indexes : state'[i] = IF i \in Configured THEN RowOf(i) ELSE NoRow
          /\ pc' = "contracts" /\ UNCHANGED since
      BY <1>0, <2>2 DEF SpawnIndexes, DatabaseRows, Goto, history
    <3>2. \A i \in Indexes : RowOf(i) # NoRow /\ (db.index[i] # NoRow => RowOf(i) = db.index[i])
      BY <1>0, RowOfType DEF RowOf
    <3> QED
      BY <1>0, <2>0, <3>1, <3>2 DEF SinceIndex, StateFits, Running, Requests
  <2>3. CASE FetchContracts
    BY <1>0, <2>3 DEF FetchContracts, SinceIndex, StateFits, Running, Requests, databaseVars,
       history, Goto
  <2>4. CASE LoadIndexState
    <3> DEFINE rows == [i \in Indexes |-> IF i \in Configured THEN [db.index[i] EXCEPT !.hash = version[i]]
                                                              ELSE db.index[i]]
    <3>1. /\ \A i \in Configured : db.index[i].hash \in {NoHash, version[i]}
          /\ db' = [db EXCEPT !.index = rows] /\ pc' = "templates" /\ UNCHANGED <<since, state>>
      BY <1>4, <2>4 DEF LoadIndexState, Reindexing, Goto, inventoryVars, history
    <3>2. db'.index = rows
      <4> HIDE DEF rows
      <4> QED
        BY <1>0, <3>1 DEF DatabaseRows
    <3>3. ASSUME NEW i \in Configured
          PROVE  /\ db'.index[i] # NoRow /\ db'.index[i].hash = version[i]
                 /\ state[i] = db.index[i] /\ db.index[i] # NoRow
      <4>1. db.index[i] \in IndexRows /\ version[i] \in Hashes /\ db.index[i] # NoRow
        BY <1>0, <2>4, Rows DEF LoadIndexState, RowsFit, SpawnedSteps, Running, TypeInv
      <4>2. [db.index[i] EXCEPT !.hash = version[i]] # NoRow
                 /\ [db.index[i] EXCEPT !.hash = version[i]].hash = version[i]
        BY <4>1, HashedRow
      <4> QED
        BY <1>0, <2>4, <3>2, <4>1, <4>2 DEF LoadIndexState, StateFits, Running
    <3>4. \A i \in Templated : db'.index[i] = db.index[i]
      BY <1>0, <3>2
    <3> QED
      BY <1>0, <2>0, <3>1, <3>3, <3>4 DEF SinceIndex, StateFits, Running, Requests
  <2>5. CASE AddTemplated
    <3>1. /\ \A i \in AddedBefore : InTemplates(i)
          /\ \/ Down /\ db' = db /\ UNCHANGED since
             \/ /\ state' = [i \in Indexes |-> IF i \in AddedBefore THEN RowOf(i) ELSE state[i]]
                /\ pc' = "running" /\ UNCHANGED <<db, since>>
      BY <1>4, <2>5 DEF AddTemplated, Reindexing, Ignores, Goto, databaseVars, history
    <3>2. CASE Down /\ db' = db /\ UNCHANGED since
      BY <1>1, <2>0, <3>2 DEF Down, SpawnedSteps, Running, Requests
    <3>3. CASE /\ state' = [i \in Indexes |-> IF i \in AddedBefore THEN RowOf(i) ELSE state[i]]
               /\ pc' = "running" /\ UNCHANGED <<db, since>>
      BY <1>0, <2>0, <2>5, <3>1, <3>3 DEF AddTemplated, AddedBefore, InTemplates, SinceIndex,
         StateFits, Running, Requests
    <3> QED
      BY <3>1, <3>2, <3>3
  <2>6. ASSUME NEW i \in Indexes, ProcessLevel(i)
        PROVE  (\A j \in Indexes : SinceIndex(j) /\ StateFits(j))'
    <3>1. CASE SpawnedBy(i) \cap inventory # {}
      BY <1>1, <2>0, <2>6, <3>1 DEF ProcessLevel, Down, SpawnedSteps, Running, Requests
    <3>2. CASE SpawnedBy(i) \cap inventory = {}
      <4> DEFINE rows == [j \in Indexes |-> IF j \in SpawnedBy(i) \cup {i} THEN state'[j] ELSE db.index[j]]
      <4>1. /\ db' = [db EXCEPT !.contract = @ \/ Contract \in SpawnedBy(i), !.index = rows]
            /\ pc = "running" /\ pc' = pc /\ state[i] # NoRow
            /\ \A j \in Indexes :
                 /\ state'[j] = IF j = i THEN [state[i] EXCEPT !.level = @ + 1]
                                ELSE IF j \in SpawnedBy(i) THEN RowOf(j) ELSE state[j]
                 /\ since'[j] = IF j = i /\ since[j] = NoHash THEN version[j] ELSE since[j]
        BY <1>0, <2>6, <3>2, NamesAssumption DEF ProcessLevel
      <4>2. db'.index = rows
        <5> HIDE DEF rows
        <5> QED
          BY <1>0, <4>1 DEF DatabaseRows
      <4>3. state[i] \in IndexRows /\ state'[i] \in IndexRows /\ state'[i].hash = state[i].hash
        BY <1>0, <4>1 DEF TypeInv, IndexRows
      <4>4. \A j \in SpawnedBy(i) \cap Indexes : j \in Templated /\ j # i /\ version[j] # NoHash
                 /\ RowOf(j) # NoRow
        BY <1>0, RowOfType, FactoryAssumption DEF SpawnedBy, InTemplates
      <4>5. (SinceIndex(i) /\ StateFits(i))'
        BY <1>0, <2>0, <4>1, <4>2, <4>3, NamesAssumption DEF SinceIndex, StateFits, Running,
           Requests
      <4>6. ASSUME NEW j \in Indexes \ {i} PROVE (SinceIndex(j) /\ StateFits(j))'
        <5>1. CASE j \in SpawnedBy(i)
          <6> db'.index[j] = RowOf(j) /\ state'[j] = RowOf(j) /\ since'[j] = since[j]
            BY <4>1, <4>2, <5>1
          <6> QED
            BY <1>0, <2>0, <4>1, <4>4, <5>1 DEF SinceIndex, StateFits, Running, Requests
        <5>2. CASE j \notin SpawnedBy(i)
          <6> db'.index[j] = db.index[j] /\ state'[j] = state[j] /\ since'[j] = since[j]
            BY <4>1, <4>2, <5>2
          <6> QED
            BY <2>0, <4>1 DEF SinceIndex, StateFits, Running
        <5> QED
          BY <5>1, <5>2
      <4> QED
        BY <4>5, <4>6
    <3> QED
      BY <3>1, <3>2
  <2> QED
    BY <1>4, <2>1, <2>2, <2>3, <2>4, <2>5, <2>6
<1>5. CASE User
  <2>0. pc' = "down" /\ policy' = policy
    BY <1>5, UserFrame
  <2>1. \A i \in Indexes : StateFits(i)'
    <3>1. \A i \in Indexes : state'[i] = NoRow
      <4>1. CASE Stop
        BY <4>1 DEF Stop, Down
      <4>2. CASE ~Stop
        <5>1. state' = state /\ pc = "down"
          BY <1>5, <4>2 DEF User, StartCommand, Migrate, MakeMigration, SchemaApprove,
             SchemaUpgrade, Approve, SchemaWipe, EditPart, EditTemplate, Reorg, ChangeMetadata,
             Edit, Command, processVars, inventoryVars
        <5> QED
          BY <5>1 DEF StateFits, Running
      <4> QED
        BY <4>1, <4>2
    <3> QED
      BY <2>0, <3>1 DEF StateFits, Running, Requests
  <2>2. CASE db'.index = db.index /\ UNCHANGED <<since, version>>
    BY <2>1, <2>2 DEF SinceIndex
  <2>3. CASE SchemaApprove \/ SchemaUpgrade \/ SchemaWipe
    <3> \A i \in Indexes : since'[i] = NoHash
      BY <1>0, <2>3 DEF SchemaApprove, SchemaUpgrade, Approve, SchemaWipe, Nothing
    <3> QED
      BY <2>1 DEF SinceIndex
  <2>4. CASE EditPart
    <3>1. PICK p \in Parts : MayEdit(p) /\ version' = [version EXCEPT ![p] = 1 - @]
      BY <2>4 DEF EditPart
    <3>2. db' = db /\ since' = since /\ pc = "down"
      BY <2>4 DEF EditPart, Edit
    <3>3. ASSUME NEW i \in Indexes PROVE SinceIndex(i)'
      <4>1. CASE i # p
        BY <1>0, <3>1, <3>2, <4>1 DEF SinceIndex, TypeInv
      <4>2. CASE i = p
        <5>1. i \in Configured /\ ~Reset(db.index[i])
          BY <1>0, <3>1, <4>2, NamesAssumption DEF MayEdit
        <5> QED
          BY <1>0, <3>2, <5>1 DEF SinceIndex, Reset
      <4> QED
        BY <4>1, <4>2
    <3> QED
      BY <2>1, <3>3
  <2>5. CASE EditTemplate
    <3>1. PICK p \in Templated, new \in Versions \cup {NoHash} :
            /\ version' = [version EXCEPT ![p] = new]
            /\ new # NoHash => since[p] \in {NoHash, new}
      BY <2>5 DEF EditTemplate
    <3>2. db' = db /\ since' = since
      BY <2>5 DEF EditTemplate, Edit
    <3>3. \A i \in Indexes : version'[i] = IF i = p THEN new ELSE version[i]
      BY <1>0, <3>1 DEF TypeInv
    <3> QED
      BY <2>1, <3>1, <3>2, <3>3 DEF SinceIndex
  <2>6. CASE Migrate
    BY <1>0, <2>2, <2>6 DEF Migrate, DatabaseRows, history, project
  <2> QED
    BY <1>5, <2>2, <2>3, <2>4, <2>5, <2>6, UserFrame
<1>6. CASE Next /\ ~Run /\ ~User /\ ~Reindexing
  <2>0. pc = "running" /\ UNCHANGED <<version, since>>
    BY <1>6, OtherFrame DEF Next, Reindexing
  <2>1. CASE RequestOfHook \/ RequestOfHandler \/ RollbackTooDeep
    <3>1. pc' \in Requests /\ state' = state /\ db' = db
      BY <2>1 DEF RequestOfHook, RequestOfHandler, RollbackTooDeep, Request, Goto, Requests,
         inventoryVars, databaseVars
    <3> QED
      BY <1>1, <2>0, <3>1 DEF Requests
  <2>2. CASE RefreshState
    <3>1. /\ pc' = pc /\ db' = db
          /\ \A i \in Indexes : state'[i] = IF state[i] = NoRow THEN NoRow ELSE db.index[i]
      BY <2>2 DEF RefreshState, databaseVars
    <3> QED
      BY <2>0, <3>1 DEF SinceIndex, StateFits, Running, Requests
  <2>3. ASSUME NEW i \in Indexes, RollbackLevel(i)
        PROVE  (\A j \in Indexes : SinceIndex(j) /\ StateFits(j))'
    <3>1. /\ state' = [state EXCEPT ![i] = [state[i] EXCEPT !.level = @ - 1]]
          /\ db' = [db EXCEPT !.index = [db.index EXCEPT ![i] = state'[i]]]
          /\ pc' = pc /\ state[i] \in IndexRows /\ state[i].level > 0
      BY <1>0, <2>3 DEF RollbackLevel, TypeInv
    <3>2. /\ state'[i] # NoRow /\ state'[i].hash = state[i].hash /\ db'.index[i] = state'[i]
          /\ \A j \in Indexes : j # i => state'[j] = state[j] /\ db'.index[j] = db.index[j]
      <4>1. state'[i] = [state[i] EXCEPT !.level = @ - 1]
        BY <1>0, <3>1 DEF TypeInv
      <4>2. state'[i] \in IndexRows /\ state'[i].hash = state[i].hash
        BY <3>1, <4>1 DEF IndexRows
      <4>3. db'.index = [db.index EXCEPT ![i] = state'[i]]
        BY <1>0, <3>1 DEF DatabaseRows
      <4> QED
        BY <1>0, <3>1, <4>2, <4>3, NamesAssumption DEF DatabaseRows, TypeInv
    <3>3. state[i] # NoRow
      BY <3>1, NamesAssumption
    <3>4. (SinceIndex(i) /\ StateFits(i))'
      BY <1>0, <2>0, <3>1, <3>2, <3>3 DEF SinceIndex, StateFits, Running, Requests
    <3>5. \A j \in Indexes : j # i => (SinceIndex(j) /\ StateFits(j))'
      BY <1>0, <2>0, <3>1, <3>2 DEF SinceIndex, StateFits, Running, Requests
    <3> QED
      BY <3>4, <3>5
  <2> QED
    BY <1>6, <2>1, <2>2, <2>3 DEF Next, Reindexing
<1> QED
  BY <1>2, <1>3, <1>4, <1>5, <1>6 DEF Next, Reindexing

LEMMA PolicyStays ==
  ASSUME Base, [Next]_vars
  PROVE  UNCHANGED <<policy, database>>
<1>1. CASE UNCHANGED vars
  BY <1>1 DEF vars, databaseVars
<1>2. CASE Reindexing
  BY <1>2, ReindexingDoes
<1>3. CASE Next /\ ~Reindexing
  BY <1>3, RunFrame, UserFrame, OtherFrame DEF Next, Reindexing
<1> QED
  BY <1>1, <1>2, <1>3

LEMMA SinceFitsStep ==
  ASSUME Base, SinceFits, [Next]_vars, {"edit_approved", "edit_template"} \cap Circumstances = {}
  PROVE  SinceFits'
<1>1. policy' = policy
  BY PolicyStays
<1>2. SinceModels'
  BY SinceModelsStep DEF SinceFits
<1>3. CASE Ignores("config_modified")
  BY <1>1, <1>2, <1>3 DEF SinceFits, Ignores, Action
<1>4. CASE ~Ignores("config_modified")
  BY <1>2, <1>4, SinceIndexStep DEF SinceFits
<1> QED
  BY <1>3, <1>4

(* The rows of an index, and those of all, come from one version of its     *)
(* definition and of the models, unless models or an index are edited       *)
(* before an approval is taken up, or a template after rows were made of    *)
(* it: that hash is never compared.                                         *)
THEOREM OneDefinitionKept ==
  ASSUME {"unsaved_row", "edit_approved", "edit_template"} \cap Circumstances = {}
  PROVE  Spec => []OneDefinition
<1>0. "unsaved_row" \notin Circumstances
  OBVIOUS
<1> DEFINE Inv == Base /\ SinceFits
<1>1. Init => Inv
  <2>1. Init => SinceFits
    BY FactoryAssumption DEF Init, DatabaseInit, Empty, SinceFits, SinceModels, SinceIndex,
       StateFits, Running, Nothing, Parts, Requests, Configured
  <2> QED
    BY <1>0, <2>1, BaseInit
<1>2. Inv /\ [Next]_vars => Inv'
  BY BaseStep, SinceFitsStep
<1>3. Inv => OneDefinition
  <2> SUFFICES ASSUME Inv, pc = "running" PROVE OneDefinition
    BY DEF OneDefinition
  <2>1. ~Ignores("schema_modified") => since[Models] \in {NoHash, version[Models]}
    BY DEF Base, SinceFits, SinceModels, HashChecked, StepsFit, Checked, IndexSteps, SpawnedSteps,
       Running, HasuraSteps
  <2>2. ~Ignores("config_modified") => \A i \in Indexes : since[i] \in {NoHash, version[i]}
    BY FactoryAssumption DEF SinceFits, SinceIndex, StateFits, Running, Configured
  <2> QED
    BY <2>1, <2>2 DEF OneDefinition, Ignores
<1> QED
  BY <1>1, <1>2, <1>3, PTL DEF Spec

-----------------------------------------------------------------------------
(* Hasura's metadata.                                                       *)

Configuring ==
  \/ pc \in {"hasura"} \cup HasuraSteps
  \/ pc = "down" /\ command = "configure" /\ db.tables # NoHash

(* What configures Hasura does so from models that were accepted.           *)
LEMMA ConfiguringAccepted ==
  ASSUME Base, HasuraFits, Configuring
  PROVE  db.schema # NoRow /\ AcceptedModels = version[Models] /\ Generated = Section(AcceptedModels)
<1>1. CASE command = "configure"
  BY <1>1 DEF Configuring, HasuraFits, Accepted, AcceptedModels, Generated, Section, Base, StepsFit
<1>2. CASE command # "configure"
  BY <1>2 DEF Configuring, AcceptedModels, Generated, Section, Base, StepsFit, HashChecked, Checked
<1> QED
  BY <1>1, <1>2

LEMMA SectionFacts ==
  ASSUME Base
  PROVE  /\ Generated # NoHash /\ metadata # NoHash /\ Generated = Section(version[Models])
         /\ Complete <=> metadata = CompleteOf(version[Models])
         /\ Complete => \A s \in Sections : metadata.sections[s] = Generated
         /\ \A m, n : Section(m) = Section(n) => m = n
         /\ \A s \in Sections : SourceCreated.sections[s] = metadata.sections[s]
         /\ SourceCreated.source /\ SourceCreated.foreign = metadata.foreign
<1>1. metadata \in Metadatas /\ Generated \in Versions \X Versions
  BY MetadataWith DEF Base, TypeInv
<1>2. /\ Generated # NoHash /\ metadata # NoHash /\ Generated = Section(version[Models])
      /\ \A m, n : Section(m) = Section(n) => m = n
  BY <1>1, MetadataAssumption DEF Generated, Section
<1>3. Complete <=> metadata = CompleteOf(version[Models])
  BY <1>2, Zenon DEF Complete, CompleteOf
<1>4. Complete => \A s \in Sections : metadata.sections[s] = Generated
  BY DEF Complete
<1>5. /\ \A s \in Sections : SourceCreated.sections[s] = metadata.sections[s]
      /\ SourceCreated.source /\ SourceCreated.foreign = metadata.foreign
  BY <1>1 DEF SourceCreated, Metadatas
<1> QED
  BY <1>2, <1>3, <1>4, <1>5

LEMMA SectionSteps ==
  ASSUME Base
  PROVE  /\ TablesReplaced.source = metadata.source /\ TablesReplaced.foreign = 0
         /\ TablesReplaced.sections["tables"] = Generated
         /\ \A s \in Sections : TablesReplaced.sections[s] \in {NoHash, Generated}
         /\ \A t \in Sections :
              /\ SectionAdded(t).source = metadata.source
                      /\ SectionAdded(t).foreign = metadata.foreign
              /\ \A s \in Sections : SectionAdded(t).sections[s] =
                   IF s = t THEN Generated ELSE metadata.sections[s]
<1>1. metadata \in Metadatas
  BY DEF Base, TypeInv
<1>2. ASSUME NEW t \in Sections
      PROVE  /\ SectionAdded(t).source = metadata.source /\ SectionAdded(t).foreign = metadata.foreign
             /\ \A s \in Sections : SectionAdded(t).sections[s] =
                  IF s = t THEN Generated ELSE metadata.sections[s]
  BY <1>1 DEF SectionAdded, Metadatas
<1>3. /\ TablesReplaced.source = metadata.source /\ TablesReplaced.foreign = 0
      /\ TablesReplaced.sections = [s \in Sections |-> IF s = "tables" THEN Generated ELSE NoHash]
  <2> DEFINE sections == [s \in Sections |-> IF s = "tables" THEN Generated ELSE NoHash]
  <2>1. TablesReplaced = [metadata EXCEPT !.sections = sections, !.foreign = 0]
    BY DEF TablesReplaced
  <2> HIDE DEF sections
  <2>2. /\ TablesReplaced.source = metadata.source /\ TablesReplaced.foreign = 0
        /\ TablesReplaced.sections = sections
    BY <1>1, <2>1 DEF Metadatas
  <2> QED
    BY <2>2 DEF sections
<1> QED
  BY <1>2, <1>3 DEF Sections

(* The models that Hasura was configured from stay those that were          *)
(* accepted.                                                                *)
LEMMA HasuraFitsStep ==
  ASSUME Base, HasuraFits, Progress, [Next]_vars, {"edit_hasura", "edit_approved"} \cap Circumstances = {}
  PROVE  HasuraFits'
<1>0. /\ TypeInv /\ StepsFit /\ SchemaFits /\ db \in DatabaseRows
      /\ version[Models] \in Versions /\ version[Models] # NoHash
  BY NamesAssumption, FactoryAssumption DEF Base, TypeInv, Parts
<1> DEFINE Kept == /\ db'.schema = db.schema /\ db'.hasura = db.hasura
                           /\ UNCHANGED <<policy, version, metadata>>
           Started == /\ command' = "configure" => Accepted'
                      /\ command' = "configure" /\ pc' \in HasuraSteps => db'.schema # NoRow
<1>1. CASE Kept /\ Started
  BY <1>1 DEF HasuraFits, AcceptedModels, Section, CompleteOf, Ignores, Action
<1>2. CASE UNCHANGED vars
  BY <1>1, <1>2 DEF vars, databaseVars, processVars, HasuraFits, Accepted
<1>3. CASE Reindexing
  <2>1. PICK reason \in Reasons, next \in AllSteps, inHandler \in BOOLEAN :
          /\ From(reason, next, inHandler)
          /\ GoesOn(reason, next) \/ Raised(reason, inHandler) \/ WipedAll(reason, inHandler)
          /\ UNCHANGED <<policy, version, metadata, command>>
    BY <1>3, ReindexingDoes
  <2>2. command' # "configure"
    BY <1>0, <2>1 DEF From, StepsFit, HasuraSteps, Requests
  <2>3. CASE GoesOn(reason, next)
    <3>1. db'.hasura = db.hasura
               /\ (db'.schema = db.schema \/ (Ignores("schema_modified") /\ (db.schema # NoRow => db'.schema # NoRow)))
      BY <1>0, <2>3, Rows, ResetSchema, NamesAssumption DEF GoesOn, Ignoring, Ignores
    <3> QED
      BY <1>1, <2>1, <2>2, <3>1 DEF HasuraFits, AcceptedModels, Section, CompleteOf, Ignores, Action
  <2>4. CASE Raised(reason, inHandler)
    <3>1. db.schema # NoRow /\ Flagging(db', reason) => db'.schema # NoRow
               /\ db'.schema.hash = db.schema.hash
      BY <1>0, Rows, FlaggedSchema DEF Flagging
    <3>2. db' = db \/ (db.schema # NoRow /\ Flagging(db', reason))
      BY <2>4 DEF Raised
    <3>3. Flagging(db', reason) => db'.hasura = db.hasura
      BY DEF Flagging
    <3> QED
      BY <2>1, <2>2, <3>1, <3>2, <3>3 DEF HasuraFits, AcceptedModels, Section, CompleteOf, Ignores,
         Action
  <2>5. CASE WipedAll(reason, inHandler)
    BY <1>1, <2>1, <2>2, <2>5 DEF WipedAll, Wiping, HasuraFits
  <2> QED
    BY <2>1, <2>3, <2>4, <2>5
<1>4. CASE Run /\ ~Reindexing
  <2>0. UNCHANGED <<policy, version>>
    BY <1>4, RunFrame
  <2>1. Started
    <3>1. CASE command = "configure"
      <4>1. CASE command' = command
        <5>1. db' = db \/ SaveMetadataHash
          BY <1>0, <1>4, <3>1, <4>1 DEF Run, Reindexing, StepsFit, HasuraSteps, Requests,
             ReadSchema, GenerateSchema, FireOnReindex, SaveSchema, SaveHash, CheckFlag,
             FireOnRestart, SetUpMigrations, InitializeDatasources, CheckMetadata, ConfigureFails,
             CreateSource, ReplaceTables, ApplyCustomization, ReplaceQueries, ApplyCustomMetadata,
             HasuraDone, SpawnIndexes, FetchContracts, LoadIndexState, AddTemplated, StoreHead,
             ProcessLevel, Metadata, databaseVars
        <5>2. db'.schema = db.schema /\ db'.tables = db.tables
          BY <1>0, <5>1 DEF SaveMetadataHash, DatabaseRows
        <5>3. pc' \in HasuraSteps => Configuring
          BY <1>0, <1>4, <3>1 DEF Run, Reindexing, StepsFit, HasuraSteps, Requests, ReadSchema,
             GenerateSchema, FireOnReindex, SaveSchema, SaveHash, CheckFlag, FireOnRestart,
             SetUpMigrations, InitializeDatasources, CheckMetadata, ConfigureFails, CreateSource,
             ReplaceTables, ApplyCustomization, ReplaceQueries, ApplyCustomMetadata,
             SaveMetadataHash, HasuraDone, SpawnIndexes, FetchContracts, LoadIndexState,
             AddTemplated, StoreHead, ProcessLevel, Metadata, Goto, Down, processVars, Configuring
        <5> QED
          BY <2>0, <3>1, <5>2, <5>3, ConfiguringAccepted DEF HasuraFits, Accepted
      <4> QED
        BY <1>4, <3>1, <4>1 DEF Run, Reindexing, ReadSchema, GenerateSchema, FireOnReindex,
           SaveSchema, SaveHash, CheckFlag, FireOnRestart, SetUpMigrations, InitializeDatasources,
           CheckMetadata, ConfigureFails, CreateSource, ReplaceTables, ApplyCustomization,
           ReplaceQueries, ApplyCustomMetadata, SaveMetadataHash, HasuraDone, SpawnIndexes,
           FetchContracts, LoadIndexState, AddTemplated, StoreHead, ProcessLevel, Metadata,
           processVars
    <3>2. CASE command # "configure"
      <4> command' # "configure"
        BY <1>4, <3>2 DEF Run, Reindexing, ReadSchema, GenerateSchema, FireOnReindex, SaveSchema,
           SaveHash, CheckFlag, FireOnRestart, SetUpMigrations, InitializeDatasources,
           CheckMetadata, ConfigureFails, CreateSource, ReplaceTables, ApplyCustomization,
           ReplaceQueries, ApplyCustomMetadata, SaveMetadataHash, HasuraDone, SpawnIndexes,
           FetchContracts, LoadIndexState, AddTemplated, StoreHead, ProcessLevel, Metadata,
           processVars, Ignores
      <4> QED
        OBVIOUS
    <3> QED
      BY <3>1, <3>2
  <2>2. CASE metadata' = metadata /\ ~SaveSchema /\ ~SaveHash /\ ~SaveMetadataHash
    BY <1>1, <1>4, <2>1, <2>2, RunFrame
  <2>3. CASE SaveSchema
    <3> db.schema = NoRow /\ db'.hasura = db.hasura
      BY <1>0, <2>3 DEF SaveSchema, StepsFit, DatabaseRows
    <3> QED
      BY <2>1 DEF HasuraFits
  <2>4. CASE SaveHash
    <3>0. known \in SchemaRows /\ known.hash = NoHash /\ metadata' = metadata
      BY <1>0, <2>4 DEF SaveHash, TypeInv
    <3>1. /\ db.schema \in SchemaRows /\ db.schema.hash = NoHash
          /\ db'.hasura = db.hasura /\ db'.schema = [known EXCEPT !.hash = version[Models]]
      <4>1. db.schema \in {known, [known EXCEPT !.hash = NoHash]}
        BY <1>0, <2>4 DEF SaveHash, StepsFit
      <4> QED
        BY <1>0, <2>4, <3>0, <4>1, ResetSchema DEF SaveHash, DatabaseRows
    <3>2. db'.schema # NoRow /\ db'.schema.hash = version[Models]
      BY <1>0, <3>0, <3>1, NamesAssumption DEF SchemaRows, Hashes
    <3> QED
      BY <2>0, <2>1, <3>0, <3>1, <3>2 DEF HasuraFits, AcceptedModels, Section, CompleteOf, Ignores,
         Action
  <2>5. CASE SaveMetadataHash
    <3>1. Configuring /\ Complete
      BY <2>5 DEF SaveMetadataHash, Configuring, HasuraSteps, Progress
    <3>2. db.schema # NoRow /\ AcceptedModels = version[Models] /\ Generated = Section(AcceptedModels)
      BY <3>1, ConfiguringAccepted
    <3>3. db'.hasura = metadata /\ db'.schema = db.schema /\ metadata' = metadata
      BY <1>0, <2>5 DEF SaveMetadataHash, DatabaseRows
    <3>4. AcceptedModels' = AcceptedModels /\ Section(AcceptedModels)' = Section(AcceptedModels)
          /\ CompleteOf(AcceptedModels)' = CompleteOf(AcceptedModels)
      BY <2>0, <3>3 DEF AcceptedModels, Ignores, Action, Section, CompleteOf
    <3> QED
      BY <2>1, <3>1, <3>2, <3>3, <3>4, SectionFacts DEF HasuraFits
  <2>6. CASE CreateSource \/ ReplaceTables \/ ApplyCustomization \/ ReplaceQueries
                  \/ ApplyCustomMetadata
    <3>1. Configuring
      BY <2>6 DEF CreateSource, ReplaceTables, ApplyCustomization, ReplaceQueries,
         ApplyCustomMetadata, Configuring, HasuraSteps
    <3>2. db' = db
               /\ \A s \in Sections : metadata'.sections[s] \in {metadata.sections[s], NoHash, Generated}
      BY <2>6, SectionFacts, SectionSteps DEF CreateSource, ReplaceTables, ApplyCustomization,
         ReplaceQueries, ApplyCustomMetadata, Metadata, Sections, databaseVars
    <3>3. AcceptedModels' = AcceptedModels /\ Section(AcceptedModels)' = Section(AcceptedModels)
          /\ CompleteOf(AcceptedModels)' = CompleteOf(AcceptedModels)
      BY <2>0, <3>2 DEF AcceptedModels, Ignores, Action, Section, CompleteOf
    <3> QED
      BY <2>1, <3>1, <3>2, <3>3, ConfiguringAccepted DEF HasuraFits
  <2>7. \/ metadata' = metadata
        \/ CreateSource \/ ReplaceTables \/ ApplyCustomization \/ ReplaceQueries
                \/ ApplyCustomMetadata
    BY <1>4 DEF Run, Reindexing, ReadSchema, GenerateSchema, FireOnReindex, SaveSchema, SaveHash,
       CheckFlag, FireOnRestart, SetUpMigrations, InitializeDatasources, CheckMetadata,
       ConfigureFails, SaveMetadataHash, HasuraDone, SpawnIndexes, FetchContracts, LoadIndexState,
       AddTemplated, StoreHead, ProcessLevel, Metadata, Ignores, project
  <2> QED
    BY <2>2, <2>3, <2>4, <2>5, <2>6, <2>7
<1>5. CASE User
  <2>0. pc' = "down" /\ policy' = policy
    BY <1>5, UserFrame
  <2>1. CASE StartCommand
    <3>1. command' = "configure" => Accepted
      BY <2>1 DEF StartCommand
    <3>2. db' = db /\ UNCHANGED <<version, metadata>>
      BY <2>1 DEF StartCommand, databaseVars
    <3> QED
      BY <1>1, <2>0, <3>1, <3>2 DEF Accepted, HasuraSteps
  <2>2. CASE Migrate
    <3>1. /\ db'.schema = db.schema /\ db'.hasura = db.hasura /\ db.tables # NoHash
          /\ UNCHANGED <<version, metadata, command>>
      BY <1>0, <2>2 DEF Migrate, DatabaseRows, project, processVars
    <3> QED
      BY <1>1, <2>0, <3>1 DEF HasuraFits, Accepted, HasuraSteps
  <2>3. CASE MakeMigration \/ Reorg \/ Stop
    <3>1. db' = db /\ UNCHANGED <<version, metadata>> /\ command' \in {command, "run"}
      BY <2>3 DEF MakeMigration, Reorg, Stop, Edit, databaseVars, processVars
    <3> QED
      BY <1>1, <2>0, <3>1 DEF HasuraFits, Accepted, HasuraSteps
  <2>4. CASE SchemaApprove \/ SchemaUpgrade
    <3>1. PICK d \in DatabaseRows : Approve(d) /\ d.schema = db.schema
                                         /\ d.hasura \in {db.hasura, NoHash}
      BY <1>0, <2>4, ApprovedOne
    <3>2. /\ d.hasura # NoHash => Complete
          /\ command' = "run" /\ UNCHANGED <<version, metadata>>
      BY <3>1 DEF Approve, Command, project, processVars
    <3>3. /\ db'.hasura = d.hasura /\ db'.schema # NoRow /\ db'.schema.hash = NoHash
          /\ db.schema # NoRow
      BY <1>0, <3>1, ApproveKeeps DEF Approving
    <3>4. AcceptedModels' = version[Models]
      BY <3>2, <3>3 DEF AcceptedModels
    <3>5. ASSUME db'.hasura # NoHash
          PROVE  /\ db'.hasura = CompleteOf(version[Models])
                 /\ \A s \in Sections : metadata.sections[s] = Section(version[Models])
      <4>1. /\ Complete /\ db.hasura = db'.hasura /\ db.hasura = CompleteOf(AcceptedModels)
            /\ \A s \in Sections : metadata.sections[s] \in {NoHash, Section(AcceptedModels)}
        BY <3>1, <3>2, <3>3, <3>5 DEF HasuraFits
      <4>2. /\ \A s \in Sections : metadata.sections[s] = Section(version[Models])
            /\ Section(version[Models]) # NoHash
        BY <4>1, SectionFacts
      <4>3. Section(AcceptedModels) = Section(version[Models])
        BY <4>1, <4>2 DEF Sections
      <4> QED
        BY <4>1, <4>2, <4>3, SectionFacts
    <3>6. CompleteOf(version[Models])' = CompleteOf(version[Models])
               /\ Section(version[Models])' = Section(version[Models])
      BY <3>2 DEF CompleteOf, Section
    <3> QED
      BY <3>2, <3>3, <3>4, <3>5, <3>6 DEF HasuraFits
  <2>5. CASE SchemaWipe
    <3> Wiping(db') /\ command' = "run"
      BY <1>0, <2>5, WipedDatabase DEF SchemaWipe, Command, processVars
    <3> QED
      BY DEF Wiping, HasuraFits
  <2>6. CASE EditPart
    <3>1. PICK p \in Parts : MayEdit(p) /\ version' = [version EXCEPT ![p] = 1 - @]
      BY <2>6 DEF EditPart
    <3>2. db' = db /\ UNCHANGED metadata /\ command' = "run"
      BY <2>6 DEF EditPart, Edit, processVars
    <3>3. CASE db.hasura = NoHash
      BY <3>2, <3>3 DEF HasuraFits
    <3>4. CASE db.hasura # NoHash
      <4>1. p # HasuraPart
        BY <3>1, <3>4, NamesAssumption, FactoryAssumption DEF MayEdit, Models, HasuraPart,
           Configured
      <4>2. AcceptedModels' = AcceptedModels /\ version'[HasuraPart] = version[HasuraPart]
        <5>1. CASE p = Models
          <6>1. ~Ignores("schema_modified") /\ db.schema # NoRow /\ db.schema.hash # NoHash
            BY <3>1, <3>4, <5>1, NamesAssumption DEF MayEdit, Ignores, Reset, HasuraFits, Models,
               HasuraPart, Configured
          <6> QED
            BY <1>0, <2>0, <3>1, <3>2, <4>1, <6>1 DEF AcceptedModels, Ignores, Action, TypeInv,
               Parts
        <5>2. CASE p # Models
          BY <1>0, <2>0, <3>1, <3>2, <4>1, <5>2 DEF AcceptedModels, Ignores, Action, TypeInv, Parts
        <5> QED
          BY <5>1, <5>2
      <4>3. CompleteOf(AcceptedModels)' = CompleteOf(AcceptedModels)
                 /\ Section(AcceptedModels)' = Section(AcceptedModels)
        BY <4>2 DEF CompleteOf, Section
      <4> QED
        BY <3>2, <4>3 DEF HasuraFits
    <3> QED
      BY <3>3, <3>4
  <2>7. CASE EditTemplate
    <3>1. /\ db' = db /\ UNCHANGED metadata /\ command' = "run"
          /\ \E i \in Templated : \E new : version' = [version EXCEPT ![i] = new]
      BY <2>7 DEF EditTemplate, Edit, processVars
    <3>2. version'[Models] = version[Models] /\ version'[HasuraPart] = version[HasuraPart]
      BY <1>0, <3>1, NamesAssumption, FactoryAssumption DEF TypeInv, Parts
    <3>3. AcceptedModels' = AcceptedModels
      BY <2>0, <3>1, <3>2 DEF AcceptedModels, Ignores, Action
    <3>4. CompleteOf(AcceptedModels)' = CompleteOf(AcceptedModels)
               /\ Section(AcceptedModels)' = Section(AcceptedModels)
      BY <3>2, <3>3 DEF CompleteOf, Section
    <3> QED
      BY <3>1, <3>4 DEF HasuraFits
  <2>8. CASE ChangeMetadata
    <3>1. /\ db' = db /\ UNCHANGED version /\ command' = "run"
          /\ metadata' \in {[metadata EXCEPT !.foreign = 1], Unconfigured}
      BY <2>8 DEF ChangeMetadata, Edit, processVars
    <3>2. \A s \in Sections : metadata'.sections[s] \in {metadata.sections[s], NoHash}
      BY <1>0, <3>1 DEF Unconfigured, TypeInv, Metadatas
    <3>3. AcceptedModels' = AcceptedModels /\ CompleteOf(AcceptedModels)' = CompleteOf(AcceptedModels)
          /\ Section(AcceptedModels)' = Section(AcceptedModels)
      BY <2>0, <3>1 DEF AcceptedModels, Ignores, Action, CompleteOf, Section
    <3> QED
      BY <3>1, <3>2, <3>3 DEF HasuraFits
  <2> QED
    BY <1>5, <2>1, <2>2, <2>3, <2>4, <2>5, <2>6, <2>7, <2>8 DEF User
<1>6. CASE Next /\ ~Run /\ ~User /\ ~Reindexing
  <2>1. Kept /\ UNCHANGED command /\ db'.tables = db.tables /\ pc = "running"
    BY <1>6, OtherFrame DEF Next, Reindexing
  <2>2. command # "configure"
    BY <1>0, <2>1 DEF StepsFit, HasuraSteps
  <2> QED
    BY <1>1, <2>1, <2>2
<1> QED
  BY <1>2, <1>3, <1>4, <1>5, <1>6

LEMMA ProgressStep ==
  ASSUME Base, HasuraFits, Progress, [Next]_vars
  PROVE  Progress'
<1> DEFINE Later == IndexSteps \cup {"configured"}
<1>0. /\ TypeInv /\ StepsFit /\ UNCHANGED database
  BY PolicyStays DEF Base
<1>1. CASE /\ UNCHANGED <<metadata, version>>
           /\ pc' = pc \/ pc' \notin Later \cup HasuraSteps \/ {pc, pc'} \subseteq Later
  <2>1. Generated' = Generated /\ Complete' = Complete /\ HasHasura' = HasHasura
    BY <1>0, <1>1 DEF Generated, Complete, HasHasura
  <2> QED
    BY <1>1, <2>1 DEF Progress, IndexSteps, SpawnedSteps, Running, Requests, HasuraSteps
<1>2. CASE UNCHANGED vars
  BY <1>1, <1>2 DEF vars, databaseVars, processVars
<1>3. CASE Reindexing
  <2>1. PICK reason \in Reasons, next \in AllSteps, inHandler \in BOOLEAN :
          /\ From(reason, next, inHandler)
          /\ GoesOn(reason, next) \/ Raised(reason, inHandler) \/ WipedAll(reason, inHandler)
          /\ UNCHANGED <<version, metadata>>
    BY <1>3, ReindexingDoes
  <2>2. pc' \in {next, "down"}
    BY <2>1 DEF GoesOn, Raised, WipedAll, Stopped
  <2>3. next \notin Later \cup HasuraSteps \/ {pc, next} \subseteq Later
    BY <2>1 DEF From, IndexSteps, SpawnedSteps, Running, Requests, HasuraSteps
  <2> QED
    BY <1>1, <2>1, <2>2, <2>3 DEF IndexSteps, SpawnedSteps, Running, Requests, HasuraSteps
<1>4. CASE User
  <2> pc' = "down"
    BY <1>4, UserFrame
  <2> QED
    BY DEF Progress, IndexSteps, SpawnedSteps, Running, Requests, HasuraSteps
<1>5. CASE Next /\ ~Run /\ ~User /\ ~Reindexing
  <2>1. pc = "running" /\ UNCHANGED <<metadata, version>>
    BY <1>5, OtherFrame DEF Next, Reindexing
  <2>2. pc' \in Running
    BY <1>5, <2>1 DEF Next, Reindexing, RefreshState, RollbackLevel, RequestOfHook, RequestOfHandler,
       RollbackTooDeep, Request, Goto, Requests, Running
  <2> QED
    BY <1>1, <2>1, <2>2 DEF IndexSteps, SpawnedSteps, Running
<1>6. CASE Run /\ ~Reindexing
  <2>0. UNCHANGED version
    BY <1>6, RunFrame
  <2>1. CASE CheckMetadata
    <3>1. Configuring
      BY <2>1 DEF CheckMetadata, Configuring
    <3>2. CASE (UpToDate \/ ~HasHasura) /\ Metadata(metadata, "configured")
      <4>1. HasHasura => Complete
        <5>1. CASE UpToDate
          <6>1. metadata = CompleteOf(AcceptedModels) /\ AcceptedModels = version[Models]
            BY <3>1, <5>1, ConfiguringAccepted, SectionFacts DEF UpToDate, HasuraFits
          <6> QED
            BY <6>1, SectionFacts
        <5> QED
          BY <3>2, <5>1
      <4>2. pc' = "configured" /\ metadata' = metadata
        BY <3>2 DEF Metadata, Goto
      <4> QED
        BY <1>0, <2>0, <4>1, <4>2 DEF Progress, Complete, Generated, HasHasura, HasuraSteps
    <3>3. CASE Metadata(metadata, "source")
      BY <3>3 DEF Metadata, Goto, Progress, IndexSteps, SpawnedSteps, Running, Requests
    <3> QED
      BY <2>1, <3>2, <3>3 DEF CheckMetadata
  <2>2. Generated' = Generated
    BY <2>0 DEF Generated
  <2>3. CASE CreateSource
    BY <2>3, SectionFacts DEF CreateSource, Metadata, Goto, Progress, IndexSteps, SpawnedSteps,
       Running, Requests
  <2>4. CASE ReplaceTables
    BY <2>2, <2>4, SectionSteps DEF ReplaceTables, Metadata, Goto, Progress, HasuraSteps,
       IndexSteps, SpawnedSteps, Running, Requests
  <2>5. CASE ApplyCustomization
    BY <2>2, <2>5, SectionSteps DEF ApplyCustomization, Metadata, Goto, Progress, HasuraSteps,
       IndexSteps, SpawnedSteps, Running, Requests, Sections
  <2>6. CASE ReplaceQueries
    BY <2>2, <2>6, SectionSteps DEF ReplaceQueries, Metadata, Goto, Progress, HasuraSteps,
       IndexSteps, SpawnedSteps, Running, Requests, Sections
  <2>7. CASE ApplyCustomMetadata
    <3>1. metadata' = SectionAdded("custom") /\ pc' = "save_hash" /\ pc = "custom"
      BY <2>7 DEF ApplyCustomMetadata, Metadata, Goto
    <3>2. /\ metadata'.source /\ metadata'.foreign = 0
          /\ \A s \in Sections : metadata'.sections[s] = Generated
      BY <3>1, SectionSteps DEF Progress, HasuraSteps, Sections
    <3>3. metadata' \in Metadatas
      BY <1>0, <3>1, MetadataWith DEF Sections
    <3>4. metadata' = [source |-> TRUE, sections |-> [s \in Sections |-> Generated], foreign |-> 0]
      <4>1. metadata'.sections = [s \in Sections |-> Generated]
        BY <3>2, <3>3 DEF Metadatas
      <4> QED
        BY <3>2, <3>3, <4>1 DEF Metadatas
    <3> QED
      BY <2>2, <3>1, <3>2, <3>4 DEF Progress, Complete, IndexSteps, SpawnedSteps, Running, Requests,
         HasuraSteps
  <2>8. CASE SaveMetadataHash
    <3> pc = "save_hash" /\ pc' = "configured" /\ metadata' = metadata
      BY <2>8 DEF SaveMetadataHash, Goto
    <3> QED
      BY <2>2 DEF Progress, Complete, IndexSteps, SpawnedSteps, Running, Requests, HasuraSteps
  <2>9. CASE ~(CheckMetadata \/ CreateSource \/ ReplaceTables \/ ApplyCustomization \/ ReplaceQueries
               \/ ApplyCustomMetadata \/ SaveMetadataHash)
    <3>1. metadata' = metadata
      BY <1>6, <2>9 DEF Run, Reindexing, ReadSchema, GenerateSchema, FireOnReindex, SaveSchema,
         SaveHash, CheckFlag, FireOnRestart, SetUpMigrations, InitializeDatasources, ConfigureFails,
         HasuraDone, SpawnIndexes, FetchContracts, LoadIndexState, AddTemplated, StoreHead,
         ProcessLevel, Ignores, project
    <3>2. pc' = pc \/ pc' \notin Later \cup HasuraSteps \/ {pc, pc'} \subseteq Later
      BY <1>6, <2>9 DEF Run, Reindexing, ReadSchema, GenerateSchema, FireOnReindex, SaveSchema,
         SaveHash, CheckFlag, FireOnRestart, SetUpMigrations, InitializeDatasources, ConfigureFails,
         HasuraDone, SpawnIndexes, FetchContracts, LoadIndexState, AddTemplated, StoreHead,
         ProcessLevel, Ignores, Goto, Down, processVars, IndexSteps, SpawnedSteps, Running,
         Requests, HasuraSteps
    <3> QED
      BY <1>1, <2>0, <3>1, <3>2
  <2> QED
    BY <2>1, <2>3, <2>4, <2>5, <2>6, <2>7, <2>8, <2>9
<1> QED
  BY <1>2, <1>3, <1>4, <1>5, <1>6

(* An indexer runs with all of Hasura configured from the project as it is, *)
(* wherever an earlier attempt has stopped and whatever others have changed *)
(* there, unless what it is configured from is edited while the hash of its *)
(* metadata stays or an approval is not taken up.                           *)
THEOREM ConfiguredBeforeRunning ==
  ASSUME {"unsaved_row", "edit_hasura", "edit_approved"} \cap Circumstances = {}
  PROVE  Spec => []HasuraConfigured
<1>0. "unsaved_row" \notin Circumstances
  OBVIOUS
<1> DEFINE Inv == Base /\ HasuraFits /\ Progress
<1>1. Init => Inv
  <2>1. Init => HasuraFits
    BY DEF Init, DatabaseInit, Empty, HasuraFits
  <2>2. Init => Progress
    BY DEF Init, Progress, IndexSteps, SpawnedSteps, Running, Requests, HasuraSteps
  <2> QED
    BY <1>0, <2>1, <2>2, BaseInit
<1>2. Inv /\ [Next]_vars => Inv'
  BY BaseStep, HasuraFitsStep, ProgressStep
<1>3. Inv => HasuraConfigured
  BY DEF Progress, HasuraConfigured, IndexSteps, SpawnedSteps, Running
<1> QED
  BY <1>1, <1>2, <1>3, PTL DEF Spec
=============================================================================
