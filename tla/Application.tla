----------------------------- MODULE Application -----------------------------
(* The application of the modules of objects and kernels: Careful, or doing   *)
(* anything the API lets it do.  The README says what a careful one avoids.   *)
CONSTANTS Anything,   \* the application is not careful
          None

ASSUME ApplicationAssumption == Anything \in BOOLEAN

Careful(condition) == ~Anything => condition
=============================================================================
