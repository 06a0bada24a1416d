------------------------------ MODULE MCSpecDesk ------------------------------
(* A small instance of SpecDesk: two of everything, each interchangeable.       *)
EXTENDS SpecDesk, TLC

CONSTANTS days1, days2

(* Windows of days that do not meet.                                        *)
MCWindows == {{days1}, {days2}}

SpecSymmetry ==
  Permutations(Profiles) \cup Permutations(Revisions) \cup Permutations(Scopes)
  \cup Permutations({days1, days2}) \cup Permutations(VersionNumbers)
  \cup Permutations(SpecEditors)
=============================================================================
