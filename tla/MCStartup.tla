---------------------------- MODULE MCStartup ----------------------------
(***************************************************************************)
(* Instances of Startup for TLC.                                           *)
(***************************************************************************)
EXTENDS Startup

CONSTANTS i1, i2, c1

Always(action) == [r \in Reasons |-> action]

(* The defaults, one action for all, and the example of the docs            *)
(* (docs/1.getting-started/3.config.md:116-122).                            *)
MCPolicies ==
  {Always(a) : a \in ReindexingActions} \cup
  {[Always("exception") EXCEPT !["manual"] = "wipe", !["rollback"] = "ignore"],
   [Always("wipe") EXCEPT !["schema_modified"] = "ignore", !["manual"] = "exception"]}
=============================================================================
