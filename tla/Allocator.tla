------------------------------ MODULE Allocator ------------------------------
(***************************************************************************)
(* What the users of an allocator rely on: it hands out a cell that nobody *)
(* holds, takes back one that is held, and knows how many are out, as long *)
(* as no user has broken the rules without being refused.                  *)
(***************************************************************************)
EXTENDS Naturals

CONSTANT Cells

VARIABLES
  held,    \* cells that are handed out
  out,     \* how many
  broken   \* a user gave back what was not out, and the allocator let it

NothingOut == held = {} /\ out = 0 /\ ~broken

Take(c) == c \notin held /\ held' = held \cup {c} /\ out' = out + 1 /\ broken' = broken

GiveBack(c) == c \in held /\ held' = held \ {c} /\ out' = out - 1 /\ broken' = broken

(* From here on nothing is promised. *)
Misuse == broken'

AllocatorNext == Misuse \/ \E c \in Cells : Take(c) \/ GiveBack(c)

AllocatorSpec == NothingOut /\ [][AllocatorNext]_<<held, out, broken>>

=============================================================================
