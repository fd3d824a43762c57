----------------------------- MODULE Resources -----------------------------
(***************************************************************************)
(* The Istio custom resources the controllers keep: which there are, what  *)
(* they can contain, and the objects that hold them.  An object is         *)
(* [rev, spec]: the resource version the API server gave it and its        *)
(* content, Absent when there is no such object.                           *)
(***************************************************************************)
EXTENDS Naturals

CONSTANTS
  CRs,     \* config keys (type/namespace/name) of Istio custom resources
  Specs,   \* contents a resource can have
  Absent   \* the content of a resource that does not exist

ASSUME AbsentAssumption == Absent \notin Specs

Objects == [rev : Nat, spec : Specs \cup {Absent}]
=============================================================================
