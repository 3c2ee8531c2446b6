---------------------------- MODULE Preservation ----------------------------
(***************************************************************************)
(* What logcut promises the owner of a log, with no mechanism in it: the   *)
(* application writes bytes, bytes are copied to safety, and the space of  *)
(* a byte in the source may be released only when the byte is already      *)
(* safe.  Compact is shown to implement this specification.                *)
(***************************************************************************)
EXTENDS Naturals

VARIABLES
    size,   \* apparent size of the log: bytes 0..size-1 were written
    held,   \* the bytes whose content can still be read from the source
    safe    \* the bytes with a durable copy outside the source

vars == <<size, held, safe>>

Written == 0..(size - 1)

Init ==
    /\ size \in Nat
    /\ held = Written
    /\ safe = {}

\* The application appends one byte to its log.
Write ==
    /\ size' = size + 1
    /\ held' = held \cup {size}
    /\ UNCHANGED safe

\* Copies become durable.  A byte that is already safe stays safe.  A release
\* that never reached the disk may be undone by a power loss in the same step.
Copy ==
    /\ safe \subseteq safe' /\ safe' \subseteq safe \cup held
    /\ held \subseteq held' /\ held' \subseteq Written
    /\ UNCHANGED size

\* The source gives up the space of some bytes, each of which is safe.
Release ==
    /\ held' \subseteq held
    /\ held \ held' \subseteq safe
    /\ UNCHANGED <<size, safe>>

Next == Write \/ Copy \/ Release

Spec == Init /\ [][Next]_vars

\* Every byte the application ever wrote can be read from the source or has a
\* durable copy: the sentence "the old logs must be preserved" of the
\* architecture document.
NothingLost == Written \subseteq held \cup safe
=============================================================================
