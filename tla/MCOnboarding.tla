---------------------------- MODULE MCOnboarding ----------------------------
(***************************************************************************)
(* Small instances of Onboarding: two names, of two services or of one     *)
(* under two suffixes, lists in which the first may occur twice, and other *)
(* people who break or delete the config or list the first name twice.     *)
(***************************************************************************)
EXTENDS Onboarding

CONSTANTS a, b, x, y

First == <<a, x>>

Contents ==
  {Malformed} \cup
  {l \in BoundedSeq(Services, 3) :
     \A s \in Services : Occurrences(l, s) <= IF s = First THEN 2 ELSE 1}

HandEdits == {Malformed, Absent, <<First, First>>}
=============================================================================
